---- MODULE Spec2Model ----
(***************************************************************************)
(* Asset search subsystem of xingrin: the query parser / predicate         *)
(* compiler (SearchQueryParser) and the search executor                    *)
(* (AssetSearchService) of backend/apps/asset/services/search_service.py,  *)
(* and the refresh governor (SearchRefreshService) of                      *)
(* backend/apps/asset/services/search_refresh_service.py, and the search   *)
(* view (AssetSearchView) of backend/apps/asset/views/search_views.py.     *)
(* Five specifications: Spec (a query is parsed and executed), GovSpec     *)
(* (the governor), IterSpec (the ordered and the streamed search),         *)
(* ViewSpec (the search view) and ProjSpec (the projections, their tables  *)
(* and the writers).                                                       *)
(*                                                                         *)
(* Text is modelled character by character: a Python str is a sequence of  *)
(* one-character strings.  A WHERE clause is a sequence of tokens, each    *)
(* token the text one code expression produces (a condition f-string, a    *)
(* connective, a parenthesis); the clause text is the concatenation of the *)
(* tokens in order.                                                        *)
(***************************************************************************)
EXTENDS Integers, Sequences, FiniteSets, TLC

VARIABLES shape, query, pc, where_clause, params, results, failure

vars == <<shape, query, pc, where_clause, params, results, failure>>

\* the refresh governor: the clock, the row of asset_search_refresh_status,
\* the asset table and the search view, the scheduler invocations and the
\* value of the last mark_needs_refresh call
VARIABLES now, status, table, view, sched, marked

govVars == <<now, status, table, view, sched, marked>>

\* the streamed search: the stored records, the batch size, the offset of
\* the next window, the records yielded and the sizes of the windows fetched
VARIABLES stored, batch_size, offset, yielded, windows

\* the statement timeout in effect at each data statement issued, the value
\* count returned, the records stored during the whole stream and the number
\* of writes made while it runs
VARIABLES timeouts, total, steady, changes

\* the ids of the rows fetched and not yet yielded, and the cursor of the
\* last statement
VARIABLES pending, cursor

iterVars == <<stored, batch_size, offset, yielded, windows, timeouts, total,
              steady, changes, pending, cursor>>

\* the search view (AssetSearchView.get): the query parameters of the
\* request, the effective page and page size, and the response
VARIABLES request, page, page_size, response

reqVars == <<request, page, page_size, response>>

\* the projections and their tables: the rows of website and endpoint, the
\* rows of asset_search_view and endpoint_search_view, the rows of
\* asset_search_refresh_status, the refresh job, the value the last governor
\* call returned, the writer and the number of rows inserted into website
VARIABLES website, asset_search_view, endpoint, endpoint_search_view,
          status_rows, refresher, answer, writer, inserted

projVars == <<website, asset_search_view, endpoint, endpoint_search_view,
              status_rows, refresher, answer, writer, inserted>>

(***************************************************************************)
(* Characters and Python string helpers                                    *)
(***************************************************************************)
QUOTE == "\""

Digits == <<"0", "1", "2", "3", "4", "5", "6", "7", "8", "9">>

DigitChars == {Digits[i] : i \in 1..10}

LowerLetters ==
    {"a", "b", "c", "d", "e", "f", "g", "h", "i", "j", "k", "l", "m",
     "n", "o", "p", "q", "r", "s", "t", "u", "v", "w", "x", "y", "z"}

UpperLetters == {"A", "B", "H", "O", "S", "T", "V", "X"}

\* str.lower() on one character
LowerChar(c) ==
    CASE c = "A" -> "a" [] c = "B" -> "b" [] c = "H" -> "h" [] c = "O" -> "o"
      [] c = "S" -> "s" [] c = "T" -> "t" [] c = "V" -> "v" [] c = "X" -> "x"
      [] OTHER -> c

\* str.lower()
Lower(s) == [i \in 1..Len(s) |-> LowerChar(s[i])]

\* the regex class \w
IsWord(c) == c \in LowerLetters \cup UpperLetters \cup DigitChars \cup {"_"}

\* the regex class \s, and the characters str.strip() removes
IsSpace(c) == c = " "

RECURSIVE LStrip(_)
LStrip(s) ==
    IF s # <<>> /\ IsSpace(Head(s)) THEN LStrip(Tail(s)) ELSE s

RECURSIVE RStrip(_)
RStrip(s) ==
    IF s # <<>> /\ IsSpace(s[Len(s)]) THEN RStrip(SubSeq(s, 1, Len(s) - 1)) ELSE s

\* str.strip()
Strip(s) == RStrip(LStrip(s))

\* s.startswith('(') and s.endswith(')')
Parenthesised(s) == s # <<>> /\ Head(s) = "(" /\ s[Len(s)] = ")"

\* s[1:-1]
Inner(s) == SubSeq(s, 2, Len(s) - 1)

(***************************************************************************)
(* int(value): optional surrounding whitespace, an optional sign, decimal  *)
(* digits with single underscores allowed between digits.                  *)
(***************************************************************************)
DigitValue(c) == CHOOSE d \in 0..9 : Digits[d + 1] = c

RECURSIVE IsDigitRun(_)
\* digit (_? digit)*
IsDigitRun(s) ==
    /\ s # <<>>
    /\ Head(s) \in DigitChars
    /\ \/ Len(s) = 1
       \/ IF s[2] = "_" THEN IsDigitRun(SubSeq(s, 3, Len(s)))
                        ELSE IsDigitRun(Tail(s))

Unsigned(s) == IF s # <<>> /\ Head(s) \in {"+", "-"} THEN Tail(s) ELSE s

\* int(value) does not raise ValueError
IntParses(value) == IsDigitRun(Unsigned(Strip(value)))

RECURSIVE DigitsValue(_, _)
DigitsValue(s, acc) ==
    IF s = <<>> THEN acc
    ELSE IF Head(s) = "_" THEN DigitsValue(Tail(s), acc)
    ELSE DigitsValue(Tail(s), 10 * acc + DigitValue(Head(s)))

\* int(value), for a value that parses
IntOf(value) ==
    LET t == Strip(value)
        n == DigitsValue(Unsigned(t), 0)
    IN  IF t # <<>> /\ Head(t) = "-" THEN 0 - n ELSE n

(***************************************************************************)
(* Module constants of search_service.py                                   *)
(***************************************************************************)
FIELD_MAPPING ==
    (<<"h", "o", "s", "t">> :> "host")
    @@ (<<"u", "r", "l">> :> "url")
    @@ (<<"t", "i", "t", "l", "e">> :> "title")
    @@ (<<"t", "e", "c", "h">> :> "tech")
    @@ (<<"s", "t", "a", "t", "u", "s">> :> "status_code")
    @@ (<<"b", "o", "d", "y">> :> "response_body")
    @@ (<<"h", "e", "a", "d", "e", "r">> :> "response_headers")

ARRAY_FIELDS == {<<"t", "e", "c", "h">>}

(***************************************************************************)
(* CONDITION_PATTERN: \w+, \s*, one of == != =, \s*, a double quote, any    *)
(* characters other than a double quote, a double quote.                   *)
(***************************************************************************)
NoMatch == [ok |-> FALSE, field |-> <<>>, operator |-> <<>>, value |-> <<>>]

RECURSIVE WordRun(_, _)
\* the last position of the run of \w characters that starts at position i
\* (i - 1 when there is none)
WordRun(s, i) ==
    IF i <= Len(s) /\ IsWord(s[i]) THEN WordRun(s, i + 1) ELSE i - 1

RECURSIVE SkipSpaces(_, _)
\* the first position at or after i that holds no \s character
SkipSpaces(s, i) ==
    IF i <= Len(s) /\ IsSpace(s[i]) THEN SkipSpaces(s, i + 1) ELSE i

RECURSIVE FindQuote(_, _)
\* the first position at or after i that holds a double quote (0 when none)
FindQuote(s, i) ==
    IF i > Len(s) THEN 0
    ELSE IF s[i] = QUOTE THEN i
    ELSE FindQuote(s, i + 1)

\* s has the text lit at position i
HasAt(s, i, lit) ==
    /\ i + Len(lit) - 1 <= Len(s)
    /\ \A k \in 1..Len(lit) : s[i + k - 1] = lit[k]

\* the quoted value: the opening quote at position q1, the closing quote at
\* position q2 (0 when there is none)
QuotedValue(s, field, op, q1, q2) ==
    IF q1 <= Len(s) /\ s[q1] = QUOTE /\ q2 # 0
    THEN [ok |-> TRUE, field |-> field, operator |-> op,
          value |-> SubSeq(s, q1 + 1, q2 - 1)]
    ELSE NoMatch

\* \s* from position q1 on was skipped: the quoted value follows
ValueAt(s, field, op, q1) ==
    QuotedValue(s, field, op, q1, FindQuote(s, q1 + 1))

\* the operator op at position j, then \s* and the quoted value
TryOperator(s, field, op, j) ==
    IF HasAt(s, j, op)
    THEN ValueAt(s, field, op, SkipSpaces(s, j + Len(op)))
    ELSE NoMatch

FirstMatch(m1, m2, m3) == IF m1.ok THEN m1 ELSE IF m2.ok THEN m2 ELSE m3

\* the alternation (==|!=|=), tried in the order written
MatchOperator(s, field, j) ==
    FirstMatch(TryOperator(s, field, <<"=", "=">>, j),
               TryOperator(s, field, <<"!", "=">>, j),
               TryOperator(s, field, <<"=">>, j))

\* the field is s[i..e]
MatchField(s, i, e) ==
    IF e < i THEN NoMatch
    ELSE MatchOperator(s, SubSeq(s, i, e), SkipSpaces(s, e + 1))

\* CONDITION_PATTERN matched with its first character at position i.  \w+
\* is greedy; a shorter run leaves a \w character where \s or the operator
\* must follow, so only the whole run can match.
MatchAt(s, i) == MatchField(s, i, WordRun(s, i))

\* CONDITION_PATTERN.match(condition)
PatternMatch(condition) == MatchAt(condition, 1)

\* CONDITION_PATTERN.search(query) is not None
PatternSearch(q) == \E i \in 1..Len(q) : MatchAt(q, i).ok

(***************************************************************************)
(* The condition builders.  A bound parameter is <<"str", text>> or        *)
(* <<"int", n>>; a builder returns the clause (one token) and its          *)
(* parameter list.                                                         *)
(***************************************************************************)
StrParam(text) == <<"str", text>>

IntParam(n) == <<"int", n>>

\* f"%{value}%"
Wrapped(value) == <<"%">> \o value \o <<"%">>

Built(text, param) == [clause |-> <<text>>, params |-> <<param>>]

\* a fuzzy condition with the value written into the clause text
InterpolatedLike(field, value, is_array) ==
    [clause |-> <<"v." \o field \o " ILIKE '%">> \o value \o <<"%'">>,
     params |-> <<>>]

\* _build_like_condition(field, value, is_array)
_build_like_condition(field, value, is_array) ==
    IF is_array
    THEN Built("EXISTS (SELECT 1 FROM unnest(t." \o field
                   \o ") AS elem WHERE elem ILIKE %s)",
               StrParam(Wrapped(value)))
    ELSE IF field = "status_code"
    THEN IF IntParses(value)
         THEN Built("v." \o field \o " = %s", IntParam(IntOf(value)))
         ELSE Built("v." \o field \o "::text ILIKE %s", StrParam(Wrapped(value)))
    ELSE Built("v." \o field \o " ILIKE %s", StrParam(Wrapped(value)))

\* an exact condition that never converts the value to an integer
TextExact(field, value, is_array) ==
    IF is_array
    THEN Built("%s = ANY(t." \o field \o ")", StrParam(value))
    ELSE IF field = "status_code"
    THEN Built("v." \o field \o "::text ILIKE %s", StrParam(Wrapped(value)))
    ELSE Built("v." \o field \o " = %s", StrParam(value))

\* _build_exact_condition(field, value, is_array)
_build_exact_condition(field, value, is_array) ==
    IF is_array
    THEN Built("%s = ANY(t." \o field \o ")", StrParam(value))
    ELSE IF field = "status_code"
    THEN IF IntParses(value)
         THEN Built("v." \o field \o " = %s", IntParam(IntOf(value)))
         ELSE Built("v." \o field \o "::text = %s", StrParam(value))
    ELSE Built("v." \o field \o " = %s", StrParam(value))

\* a not-equal condition without the IS NULL alternative
PlainNotEqual(field, value, is_array) ==
    IF is_array
    THEN Built("NOT (%s = ANY(t." \o field \o "))", StrParam(value))
    ELSE IF field = "status_code" /\ IntParses(value)
    THEN Built("v." \o field \o " != %s", IntParam(IntOf(value)))
    ELSE Built("v." \o field \o " != %s", StrParam(value))

\* _build_not_equal_condition(field, value, is_array)
_build_not_equal_condition(field, value, is_array) ==
    IF is_array
    THEN Built("NOT (%s = ANY(t." \o field \o "))", StrParam(value))
    ELSE IF field = "status_code"
    THEN IF IntParses(value)
         THEN Built("(v." \o field \o " IS NULL OR v." \o field \o " != %s)",
                    IntParam(IntOf(value)))
         ELSE Built("(v." \o field \o " IS NULL OR v." \o field \o "::text != %s)",
                    StrParam(value))
    ELSE Built("(v." \o field \o " IS NULL OR v." \o field \o " != %s)",
               StrParam(value))

(***************************************************************************)
(* SearchQueryParser                                                       *)
(***************************************************************************)
\* (None, []): the condition could not be parsed
Dropped == [clause |-> <<>>, params |-> <<>>]

\* ("1=1", [])
MatchAll == [clause |-> <<"1=1">>, params |-> <<>>]

\* the branch on the operator, lines 269-279
Dispatch(db_field, is_array, operator, value) ==
    IF operator = <<"=">>
    THEN _build_like_condition(db_field, value, is_array)
    ELSE IF operator = <<"=", "=">>
    THEN _build_exact_condition(db_field, value, is_array)
    ELSE IF operator = <<"!", "=">>
    THEN _build_not_equal_condition(db_field, value, is_array)
    ELSE Dropped

\* an unknown field read as the host field instead of being dropped
UnknownAsHost(field, operator, value) ==
    IF field \notin DOMAIN FIELD_MAPPING
    THEN Dispatch("host", FALSE, operator, value)
    ELSE Dispatch(FIELD_MAPPING[field], field \in ARRAY_FIELDS, operator, value)

\* field is the lower-cased field name, lines 261-266
CheckField(field, operator, value) ==
    IF field \notin DOMAIN FIELD_MAPPING THEN Dropped
    ELSE Dispatch(FIELD_MAPPING[field], field \in ARRAY_FIELDS, operator, value)

\* match is the result of CONDITION_PATTERN.match, lines 253-258
CheckMatch(match) ==
    IF ~match.ok THEN Dropped
    ELSE CheckField(Lower(match.field), match.operator, match.value)

\* the removal of one wrapping pair of parentheses from stripped text
Unwrap(text) == IF Parenthesised(text) THEN Strip(Inner(text)) ELSE text

\* _parse_condition(condition)
_parse_condition(condition) == CheckMatch(PatternMatch(Unwrap(Strip(condition))))

\* parts, with the stripped current text appended when it is not empty
Flushed(parts, current) ==
    IF Strip(current) # <<>> THEN Append(parts, Strip(current)) ELSE parts

\* parts if parts else [query]
PartsOr(parts, q) == IF parts # <<>> THEN parts ELSE <<q>>

RECURSIVE SplitOrLoop(_, _, _, _, _)
\* the while loop of _split_by_or, from index i (1-based)
SplitOrLoop(q, i, current, in_quotes, parts) ==
    IF i > Len(q) THEN Flushed(parts, current)
    ELSE IF q[i] = QUOTE
    THEN SplitOrLoop(q, i + 1, Append(current, q[i]), ~in_quotes, parts)
    ELSE IF ~in_quotes /\ i + 1 <= Len(q) /\ HasAt(q, i, <<"|", "|">>)
    THEN SplitOrLoop(q, i + 2, <<>>, in_quotes, Flushed(parts, current))
    ELSE SplitOrLoop(q, i + 1, Append(current, q[i]), in_quotes, parts)

\* _split_by_or(query)
_split_by_or(q) == PartsOr(SplitOrLoop(q, 1, <<>>, FALSE, <<>>), q)

RECURSIVE QuoteBlindAndLoop(_, _, _, _, _)
\* a split on every && sequence, in quotes or not
QuoteBlindAndLoop(q, i, current, in_quotes, parts) ==
    IF i > Len(q) THEN Flushed(parts, current)
    ELSE IF i + 1 <= Len(q) /\ HasAt(q, i, <<"&", "&">>)
    THEN QuoteBlindAndLoop(q, i + 2, <<>>, in_quotes, Flushed(parts, current))
    ELSE QuoteBlindAndLoop(q, i + 1, Append(current, q[i]), in_quotes, parts)

RECURSIVE SplitAndLoop(_, _, _, _, _)
\* the while loop of _split_by_and, from index i (1-based)
SplitAndLoop(q, i, current, in_quotes, parts) ==
    IF i > Len(q) THEN Flushed(parts, current)
    ELSE IF q[i] = QUOTE
    THEN SplitAndLoop(q, i + 1, Append(current, q[i]), ~in_quotes, parts)
    ELSE IF ~in_quotes /\ i + 1 <= Len(q) /\ HasAt(q, i, <<"&", "&">>)
    THEN SplitAndLoop(q, i + 2, <<>>, in_quotes, Flushed(parts, current))
    ELSE SplitAndLoop(q, i + 1, Append(current, q[i]), in_quotes, parts)

\* _split_by_and(query)
_split_by_and(q) == PartsOr(SplitAndLoop(q, 1, <<>>, FALSE, <<>>), q)

\* " AND ".join / " OR ".join, one more clause at a time
Joined(clauses, sep, clause) ==
    IF clauses = <<>> THEN clause ELSE clauses \o <<sep>> \o clause

\* the body of the for loop of _parse_and_group for the parsed condition c:
\* the and_clauses (joined by " AND ") and all_params after it
AndStep(and_clauses, all_params, c) ==
    IF c.clause # <<>>
    THEN [clause |-> Joined(and_clauses, " AND ", c.clause),
          params |-> all_params \o c.params]
    ELSE [clause |-> and_clauses, params |-> all_params]

RECURSIVE AndLoop(_, _, _)
\* the for loop of _parse_and_group over parts[i..], from the result so far
AndLoop(parts, i, acc) ==
    IF i > Len(parts) THEN acc
    ELSE AndLoop(parts, i + 1,
                 AndStep(acc.clause, acc.params, _parse_condition(Strip(parts[i]))))

\* a result with no clause is ("1=1", [])
OrMatchAll(joined) == IF joined.clause = <<>> THEN MatchAll ELSE joined

\* _parse_and_group(group)
_parse_and_group(group) ==
    OrMatchAll(AndLoop(_split_by_and(Unwrap(Strip(group))), 1, Dropped))

\* the groups joined by " AND " instead of " OR "
AndJoinedStep(or_clauses, all_params, g) ==
    IF g.clause # <<>> /\ g.clause # <<"1=1">>
    THEN [clause |-> Joined(or_clauses, " AND ", <<"(">> \o g.clause \o <<")">>),
          params |-> all_params \o g.params]
    ELSE [clause |-> or_clauses, params |-> all_params]

\* the body of the for loop of parse for the parsed group g: the or_clauses
\* (joined by " OR ") and all_params after it
OrStep(or_clauses, all_params, g) ==
    IF g.clause # <<>> /\ g.clause # <<"1=1">>
    THEN [clause |-> Joined(or_clauses, " OR ", <<"(">> \o g.clause \o <<")">>),
          params |-> all_params \o g.params]
    ELSE [clause |-> or_clauses, params |-> all_params]

RECURSIVE OrLoop(_, _, _)
\* the for loop of parse over or_groups[i..], from the result so far
OrLoop(or_groups, i, acc) ==
    IF i > Len(or_groups) THEN acc
    ELSE OrLoop(or_groups, i + 1,
                OrStep(acc.clause, acc.params, _parse_and_group(or_groups[i])))

\* parse from line 137 on: the OR groups are split
ParseGroups(or_groups) ==
    IF Len(or_groups) = 1 THEN _parse_and_group(or_groups[1])
    ELSE OrMatchAll(OrLoop(or_groups, 1, Dropped))

\* bare text matched on the url column
BareTextOnUrl(q) ==
    IF ~PatternSearch(q) THEN Built("v.url ILIKE %s", StrParam(Wrapped(q)))
    ELSE ParseGroups(_split_by_or(q))

\* parse from line 129 on: q is the stripped query
ParseStripped(q) ==
    IF ~PatternSearch(q) THEN Built("v.host ILIKE %s", StrParam(Wrapped(q)))
    ELSE ParseGroups(_split_by_or(q))

\* SearchQueryParser.parse(query)
parse(q) ==
    IF q = <<>> \/ Strip(q) = <<>> THEN MatchAll ELSE ParseStripped(Strip(q))

(***************************************************************************)
(* Execution of the generated WHERE clause over one joined row (v = the    *)
(* search view, t = the asset table).  A nullable column holds {} for NULL *)
(* and {x} for the value x; tech is an array (a sequence) of tags.  SQL    *)
(* truth values: "T", "F", "N" (null); "E" is a statement the store        *)
(* rejects.  A row is returned when the clause evaluates to "T".           *)
(***************************************************************************)
IsNull(x) == x = {}

ValueOf(x) == CHOOSE y \in x : TRUE

Bool3(b) == IF b THEN "T" ELSE "F"

Not3(a) == CASE a = "T" -> "F" [] a = "F" -> "T" [] OTHER -> a

And3(a, b) ==
    IF a = "E" \/ b = "E" THEN "E"
    ELSE IF a = "F" \/ b = "F" THEN "F"
    ELSE IF a = "N" \/ b = "N" THEN "N"
    ELSE "T"

Or3(a, b) ==
    IF a = "E" \/ b = "E" THEN "E"
    ELSE IF a = "T" \/ b = "T" THEN "T"
    ELSE IF a = "N" \/ b = "N" THEN "N"
    ELSE "F"

RECURSIVE LikeAt(_, _, _, _)
\* s[i..] ILIKE p[j..]: % matches any run of characters, _ any one
\* character, any other character itself up to letter case
LikeAt(s, i, p, j) ==
    IF j > Len(p) THEN i > Len(s)
    ELSE IF p[j] = "%"
    THEN LikeAt(s, i, p, j + 1) \/ (i <= Len(s) /\ LikeAt(s, i + 1, p, j))
    ELSE IF i > Len(s) THEN FALSE
    ELSE IF p[j] = "_" THEN LikeAt(s, i + 1, p, j + 1)
    ELSE LowerChar(p[j]) = LowerChar(s[i]) /\ LikeAt(s, i + 1, p, j + 1)

\* s ILIKE p
LikeMatch(s, p) == LikeAt(s, 1, p, 1)

RECURSIVE IntToText(_)
\* status_code::text, for a non-negative integer
IntToText(n) ==
    IF n < 10 THEN <<Digits[n + 1]>>
    ELSE Append(IntToText(n \div 10), Digits[(n % 10) + 1])

TextColumns == {"host", "url", "title", "response_body", "response_headers"}

ArrayColumns == {"tech"}

\* the condition texts the store understands: the text, the comparison it
\* makes, the column it reads and the type of its parameter
ConditionForms ==
    {[text |-> "v." \o c \o " ILIKE %s", kind |-> "ilike", col |-> c,
      arg |-> "str"] : c \in TextColumns}
    \cup {[text |-> "v." \o c \o " = %s", kind |-> "eq", col |-> c,
           arg |-> "str"] : c \in TextColumns}
    \cup {[text |-> "(v." \o c \o " IS NULL OR v." \o c \o " != %s)",
           kind |-> "null_or_ne", col |-> c, arg |-> "str"] : c \in TextColumns}
    \cup {[text |-> "v." \o c \o " != %s", kind |-> "ne", col |-> c,
           arg |-> "str"] : c \in TextColumns}
    \cup {[text |-> "v.status_code != %s", kind |-> "ne",
           col |-> "status_code", arg |-> "int"]}
    \cup {[text |-> "v.status_code = %s", kind |-> "eq",
           col |-> "status_code", arg |-> "int"],
          [text |-> "(v.status_code IS NULL OR v.status_code != %s)",
           kind |-> "null_or_ne", col |-> "status_code", arg |-> "int"],
          [text |-> "v.status_code::text ILIKE %s", kind |-> "text_ilike",
           col |-> "status_code", arg |-> "str"],
          [text |-> "v.status_code::text = %s", kind |-> "text_eq",
           col |-> "status_code", arg |-> "str"],
          [text |-> "(v.status_code IS NULL OR v.status_code::text != %s)",
           kind |-> "null_or_text_ne", col |-> "status_code", arg |-> "str"]}
    \cup {[text |-> "EXISTS (SELECT 1 FROM unnest(t." \o c
                        \o ") AS elem WHERE elem ILIKE %s)",
           kind |-> "any_ilike", col |-> c, arg |-> "str"] : c \in ArrayColumns}
    \cup {[text |-> "%s = ANY(t." \o c \o ")", kind |-> "any_eq", col |-> c,
           arg |-> "str"] : c \in ArrayColumns}
    \cup {[text |-> "NOT (%s = ANY(t." \o c \o "))", kind |-> "not_any_eq",
           col |-> c, arg |-> "str"] : c \in ArrayColumns}

ConditionTexts == {f.text : f \in ConditionForms}

FormOf(tok) == CHOOSE f \in ConditionForms : f.text = tok

\* the comparison kind on the column value x (a nullable scalar, or an
\* array) with the parameter value a
Compare(kind, x, a) ==
    CASE kind = "ilike" ->
           IF IsNull(x) THEN "N" ELSE Bool3(LikeMatch(ValueOf(x), a))
      [] kind = "eq" ->
           IF IsNull(x) THEN "N" ELSE Bool3(ValueOf(x) = a)
      [] kind = "ne" ->
           IF IsNull(x) THEN "N" ELSE Bool3(ValueOf(x) # a)
      [] kind = "null_or_ne" ->
           IF IsNull(x) THEN "T" ELSE Bool3(ValueOf(x) # a)
      [] kind = "text_ilike" ->
           IF IsNull(x) THEN "N" ELSE Bool3(LikeMatch(IntToText(ValueOf(x)), a))
      [] kind = "text_eq" ->
           IF IsNull(x) THEN "N" ELSE Bool3(IntToText(ValueOf(x)) = a)
      [] kind = "null_or_text_ne" ->
           IF IsNull(x) THEN "T" ELSE Bool3(IntToText(ValueOf(x)) # a)
      [] kind = "any_ilike" ->
           Bool3(\E i \in 1..Len(x) : LikeMatch(x[i], a))
      [] kind = "any_eq" ->
           Bool3(\E i \in 1..Len(x) : x[i] = a)
      [] kind = "not_any_eq" ->
           Not3(Bool3(\E i \in 1..Len(x) : x[i] = a))

Connectives == {"(", ")", " AND ", " OR ", "1=1"}

\* a token that carries a %s placeholder
HasPlaceholder(tok) == tok \notin Connectives

RECURSIVE Bind(_, _)
\* cursor.execute(sql, params): the placeholders take the parameters in
\* order.  Each token becomes <<token, parameter>> (<<token>> without a
\* placeholder); the item <<"?">> marks a count that differs.
Bind(clause, ps) ==
    IF clause = <<>> THEN IF ps = <<>> THEN <<>> ELSE << <<"?">> >>
    ELSE IF HasPlaceholder(Head(clause))
    THEN IF ps = <<>> THEN << <<"?">> >>
         ELSE << <<Head(clause), Head(ps)>> >> \o Bind(Tail(clause), Tail(ps))
    ELSE << <<Head(clause)>> >> \o Bind(Tail(clause), ps)

RECURSIVE SplitTop(_, _, _, _, _)
\* the operands of the connective conn at parenthesis depth 0
SplitTop(items, conn, i, depth, current) ==
    IF i > Len(items) THEN <<current>>
    ELSE LET tok == items[i][1]
         IN  IF tok = conn /\ depth = 0
             THEN <<current>> \o SplitTop(items, conn, i + 1, depth, <<>>)
             ELSE SplitTop(items, conn, i + 1,
                           IF tok = "(" THEN depth + 1
                           ELSE IF tok = ")" THEN depth - 1 ELSE depth,
                           Append(current, items[i]))

PlanError == [op |-> "error"]

\* one condition with its parameter, as the store reads it
ConditionPlan(item) ==
    IF Len(item) # 2 \/ item[1] \notin ConditionTexts THEN PlanError
    ELSE LET f == FormOf(item[1])
         IN  IF item[2][1] # f.arg THEN PlanError
             ELSE [op |-> "cond", kind |-> f.kind, col |-> f.col,
                   arg |-> item[2][2]]

RECURSIVE Plan(_)
\* the expression the store reads in the bound clause.  SQL precedence: OR,
\* then AND, then a parenthesised expression or one condition.
Plan(items) ==
    LET ors == SplitTop(items, " OR ", 1, 0, <<>>)
        ands == SplitTop(items, " AND ", 1, 0, <<>>)
    IN  IF items = <<>> THEN PlanError
        ELSE IF Len(ors) > 1
        THEN [op |-> "or", kids |-> [k \in 1..Len(ors) |-> Plan(ors[k])]]
        ELSE IF Len(ands) > 1
        THEN [op |-> "and", kids |-> [k \in 1..Len(ands) |-> Plan(ands[k])]]
        ELSE IF items[1][1] = "(" /\ items[Len(items)][1] = ")"
        THEN Plan(SubSeq(items, 2, Len(items) - 1))
        ELSE IF Len(items) # 1 THEN PlanError
        ELSE IF items[1][1] = "1=1" THEN [op |-> "true"]
        ELSE ConditionPlan(items[1])

RECURSIVE Fold3(_, _, _, _)
\* the disjunction (isOr) or conjunction of the truth values vals[i..]
Fold3(isOr, vals, i, acc) ==
    IF i > Len(vals) THEN acc
    ELSE Fold3(isOr, vals, i + 1,
               IF isOr THEN Or3(acc, vals[i]) ELSE And3(acc, vals[i]))

RECURSIVE Eval(_, _)
\* the truth value of the planned expression on row r
Eval(plan, r) ==
    CASE plan.op = "error" -> "E"
      [] plan.op = "true" -> "T"
      [] plan.op = "cond" -> Compare(plan.kind, r[plan.col], plan.arg)
      [] plan.op = "or" ->
           Fold3(TRUE, [k \in 1..Len(plan.kids) |-> Eval(plan.kids[k], r)], 1, "F")
      [] plan.op = "and" ->
           Fold3(FALSE, [k \in 1..Len(plan.kids) |-> Eval(plan.kids[k], r)], 1, "T")

\* WHERE {where_clause} with the parameters ps, on row r
Where(clause, ps, r) == Eval(Plan(Bind(clause, ps)), r)

(***************************************************************************)
(* The rows searched.  url is the non-null key column; the other text      *)
(* columns are nullable.                                                   *)
(***************************************************************************)
NULL == {}

T_a_com == <<"a", ".", "c", "o", "m">>

T_AB == <<"A", "&", "&", "B">>

T_a_or_b == <<"a", "|", "|", "b">>

T_nginx == <<"n", "g", "i", "n", "x">>

T_apache == <<"a", "p", "a", "c", "h", "e">>

T_react == <<"r", "e", "a", "c", "t">>

T_vue == <<"v", "u", "e">>

T_jquery == <<"j", "q", "u", "e", "r", "y">>

T_angular == <<"a", "n", "g", "u", "l", "a", "r">>

T_200 == <<"2", "0", "0">>

Hosts == {NULL, {T_a_com}, {T_AB}}

StatusCodes == {NULL, {200}, {20}}

TechTags == {<<>>, <<T_react>>, <<T_vue, T_jquery>>, <<T_angular>>, <<T_nginx>>}

Row(h, s, t) ==
    [host |-> h,
     url |-> IF IsNull(h) THEN {<<"/">>} ELSE {ValueOf(h) \o <<"/">>},
     title |-> h,
     response_body |-> IF IsNull(s) THEN NULL ELSE {<<"o", "k">>},
     response_headers |-> IF t = <<>> THEN NULL ELSE {t[1]},
     status_code |-> s,
     tech |-> t]

Rows == {Row(h, s, t) : h \in Hosts, s \in StatusCodes, t \in TechTags}

(***************************************************************************)
(* Query strings.  A query is composed of items: a condition               *)
(* field op "value" (sp is the whitespace written around the operator) or  *)
(* raw text.  shape records the composition, query is the text the parser  *)
(* receives.                                                               *)
(***************************************************************************)
Cond(field, sp, op, value) ==
    [k |-> "cond", field |-> field, sp |-> sp, op |-> op, value |-> value,
     txt |-> <<>>]

Raw(txt) ==
    [k |-> "raw", field |-> <<>>, sp |-> <<>>, op |-> <<>>, value |-> <<>>,
     txt |-> txt]

Render(item) ==
    IF item.k = "cond"
    THEN item.field \o item.sp \o item.op \o item.sp
             \o <<QUOTE>> \o item.value \o <<QUOTE>>
    ELSE item.txt

RECURSIVE RenderAll(_)
RenderAll(items) ==
    IF items = <<>> THEN <<>> ELSE Render(Head(items)) \o RenderAll(Tail(items))

F_host == <<"h", "o", "s", "t">>

F_url == <<"u", "r", "l">>

F_title == <<"t", "i", "t", "l", "e">>

F_tech == <<"t", "e", "c", "h">>

F_status == <<"s", "t", "a", "t", "u", "s">>

F_body == <<"b", "o", "d", "y">>

F_header == <<"h", "e", "a", "d", "e", "r">>

F_bogus == <<"b", "o", "g", "u", "s">>

F_HOST == <<"H", "O", "S", "T">>

OpLike == <<"=">>

OpExact == <<"=", "=">>

OpNotEqual == <<"!", "=">>

Operators == {OpLike, OpExact, OpNotEqual}

AndSep == Raw(<<" ", "&", "&", " ">>)

OrSep == Raw(<<"|", "|">>)

\* the conditions of the combined queries
GroupConds ==
    {Cond(F_host, <<>>, OpLike, <<"a">>),
     Cond(F_host, <<>>, OpLike, <<"a", "&", "&", "b">>),
     Cond(F_status, <<>>, OpExact, T_200),
     Cond(F_tech, <<>>, OpLike, T_vue),
     Cond(F_tech, <<>>, OpLike, T_react),
     Cond(F_bogus, <<>>, OpLike, <<"x">>)}

MaxConds == 3

\* the items cs[1] ss[1] cs[2] ... cs[n]
Interleave(cs, ss) ==
    [i \in 1..(2 * Len(cs) - 1) |->
        IF i % 2 = 1 THEN cs[(i + 1) \div 2] ELSE ss[i \div 2]]

\* conditions joined by && and ||
GroupQueries ==
    UNION {{Interleave(cs, ss) : cs \in [1..n -> GroupConds],
                                 ss \in [1..(n - 1) -> {AndSep, OrSep}]}
           : n \in 1..MaxConds}

SingleFields ==
    {F_host, F_url, F_title, F_tech, F_status, F_body, F_header, F_bogus, F_HOST}

SingleValues ==
    {<<>>, <<"a">>, <<"A", ".", "C", "O", "M">>, T_a_com, T_AB,
     <<"a", "_", "c", "o", "m">>, <<"%">>, <<"_">>, <<"a", "%", "m">>,
     T_200, <<" ", "2", "0", "0">>, <<"+", "2", "0", "0">>, <<"2", "_", "0">>,
     <<"2", "0">>, <<"2", "%">>, <<"o", "k">>,
     T_react, <<"R", "E", "A", "C", "T">>, <<"e", "a", "c">>, T_jquery,
     T_nginx, T_apache}

\* one condition
SingleQueries ==
    {<<Cond(f, sp, op, v)>> : f \in SingleFields, sp \in {<<>>, <<" ">>},
                              op \in Operators, v \in SingleValues}

Fragments ==
    {Raw(F_host), Raw(<<"=">>), Raw(<<QUOTE>>), Raw(<<"&", "&">>),
     Raw(<<"|", "|">>), Raw(<<" ">>), Raw(<<"(">>), Raw(<<")">>),
     Cond(F_host, <<>>, OpLike, <<"a">>),
     Cond(F_host, <<>>, OpExact, T_a_or_b)}

MaxFragments == 3

\* free text: any fragments in any order
FragmentQueries == UNION {[1..n -> Fragments] : n \in 0..MaxFragments}

Queries == GroupQueries \cup SingleQueries \cup FragmentQueries

(***************************************************************************)
(* The refresh governor (SearchRefreshService).  Time is in seconds; the   *)
(* application clock (time.time, timezone.now) and the store clock (NOW)   *)
(* read the same value.  The clock is observed at its first two seconds    *)
(* and from the end of the first debounce window on.  Every statement is   *)
(* its own transaction (autocommit).                                       *)
(***************************************************************************)
DEBOUNCE_SECONDS == 600

MaxClock == 601

MaxWrites == 1

Schedulers == {"s1", "s2"}

Instants == {0, 1} \cup (DEBOUNCE_SECONDS..MaxClock)

\* the row id = 1 of asset_search_refresh_status
StatusRow(needs_refresh, last_refresh_at, last_refresh_duration_ms, updated_at) ==
    [needs_refresh |-> needs_refresh,
     last_refresh_at |-> last_refresh_at,
     last_refresh_duration_ms |-> last_refresh_duration_ms,
     updated_at |-> updated_at]

\* the row as it is created: clean, never refreshed
InitialStatus == StatusRow(FALSE, {}, {}, 0)

\* result = {'success': False, 'duration_ms': 0, 'error': None}
InitialResult == [success |-> FALSE, duration_ms |-> 0, error |-> {}]

\* int((time.time() - start_time) * 1000)
DurationMs(start_time, t) == (t - start_time) * 1000

\* a scheduler invocation: where it is, and the locals and the result of
\* refresh_materialized_view
Invocation(at, start_time, duration_ms, result) ==
    [pc |-> at, start_time |-> start_time, duration_ms |-> duration_ms,
     result |-> result]

\* a test of the flag alone
DebounceIgnoresWindow(row, t) == row.needs_refresh

\* a governor that is due before its first refresh only
DueOnlyOnce(row, t) == row.needs_refresh /\ row.last_refresh_at = {}

\* should_refresh_with_debounce, from the row read: needs_refresh,
\* last_refresh_at = row
should_refresh_with_debounce(row, t) ==
    IF ~row.needs_refresh THEN FALSE
    ELSE IF row.last_refresh_at = {} THEN TRUE
    ELSE (CHOOSE x \in row.last_refresh_at : TRUE) < t - DEBOUNCE_SECONDS

\* mark_needs_refresh that also restarts the debounce window
MarkRestartsWindow(row, t) ==
    [row EXCEPT !.needs_refresh = TRUE, !.updated_at = t, !.last_refresh_at = {t}]

\* mark_needs_refresh that leaves the status timestamp
MarkKeepsTimestamp(row, t) == [row EXCEPT !.needs_refresh = TRUE]

\* UPDATE ... SET needs_refresh = TRUE, updated_at = NOW() WHERE id = 1
MarkedRow(row, t) == [row EXCEPT !.needs_refresh = TRUE, !.updated_at = t]

\* a refresh bookkeeping that clears the flag and leaves the times
ClearedOnly(row, t, duration_ms) == [row EXCEPT !.needs_refresh = FALSE]

\* UPDATE ... SET needs_refresh = FALSE, last_refresh_at = NOW(),
\* last_refresh_duration_ms = %s, updated_at = NOW() WHERE id = 1
RefreshedRow(row, t, duration_ms) ==
    StatusRow(FALSE, {t}, {duration_ms}, t)

\* a refresh that empties a view that is already current
TogglingSnapshot(rows_of_table, rows_of_view) ==
    IF rows_of_view = rows_of_table THEN 0 ELSE rows_of_table

\* REFRESH MATERIALIZED VIEW: the view becomes the snapshot of the table
Snapshot(rows_of_table, rows_of_view) == rows_of_table

\* the rows v JOIN t ON v.id = t.id: rows are identified by 1..table
Joined_ids(rows_of_table, rows_of_view) ==
    (1..rows_of_view) \cap (1..rows_of_table)

\* an error path that stamps the refresh time
FailureStampsTime(row, t, duration_ms) == [row EXCEPT !.last_refresh_at = {t}]

\* except Exception: the status row after a failed refresh
FailedRow(row, t, duration_ms) == row

\* get_refresh_status(): the dict read from the row
get_refresh_status ==
    [needs_refresh |-> status.needs_refresh,
     last_refresh_at |-> status.last_refresh_at,
     last_refresh_duration_ms |-> status.last_refresh_duration_ms,
     updated_at |-> status.updated_at]

GovStart ==
    /\ now = 0
    /\ status = InitialStatus
    /\ table = 0
    /\ view = 0
    /\ sched = [p \in Schedulers |-> Invocation("idle", 0, 0, InitialResult)]
    /\ marked = "none"

\* the streamed search while another part runs
IterIdle ==
    /\ stored = {}
    /\ batch_size = 1
    /\ offset = 0
    /\ yielded = <<>>
    /\ windows = <<>>
    /\ timeouts = <<>>
    /\ total = {}
    /\ steady = {}
    /\ changes = 0
    /\ pending = <<>>
    /\ cursor = "none"

\* the search variables while the governor runs
SearchIdle ==
    /\ shape = <<>>
    /\ query = <<>>
    /\ pc = "idle"
    /\ where_clause = <<>>
    /\ params = <<>>
    /\ results = {}
    /\ failure = "none"

\* the search view while another part runs
ReqIdle ==
    /\ request = <<>>
    /\ page = {}
    /\ page_size = {}
    /\ response = <<>>

\* the projections while another part runs
ProjIdle ==
    /\ website = {}
    /\ asset_search_view = {}
    /\ endpoint = {}
    /\ endpoint_search_view = {}
    /\ status_rows = {}
    /\ refresher = "idle"
    /\ answer = "none"
    /\ writer = "idle"
    /\ inserted = 0

GovInit == GovStart /\ SearchIdle /\ IterIdle /\ ReqIdle /\ ProjIdle

\* the clock advances to a later instant
Tick ==
    /\ \E t \in Instants : t > now /\ now' = t
    /\ UNCHANGED <<status, table, view, sched, marked>>
    /\ UNCHANGED <<vars, iterVars, reqVars, projVars>>

\* a repository writes a row of the asset table
AssetWrite ==
    /\ table < MaxWrites
    /\ table' = table + 1
    /\ UNCHANGED <<now, status, view, sched, marked>>
    /\ UNCHANGED <<vars, iterVars, reqVars, projVars>>

\* mark_needs_refresh(): the UPDATE runs, True is returned
MarkNeedsRefresh ==
    /\ status' = MarkedRow(status, now)
    /\ marked' = "True"
    /\ UNCHANGED <<now, table, view, sched>>
    /\ UNCHANGED <<vars, iterVars, reqVars, projVars>>

\* mark_needs_refresh(): the UPDATE raises, False is returned
MarkFails ==
    /\ marked' = "False"
    /\ UNCHANGED <<now, status, table, view, sched>>
    /\ UNCHANGED <<vars, iterVars, reqVars, projVars>>

\* should_refresh_with_debounce() called by scheduler p; "due" is the
\* return value True, "skip" the return value False
ShouldRefresh(p) ==
    /\ sched[p].pc \in {"idle", "skip"}
    /\ sched' = [sched EXCEPT ![p].pc =
                    IF should_refresh_with_debounce(status, now)
                    THEN "due" ELSE "skip"]
    /\ UNCHANGED <<now, status, table, view, marked>>
    /\ UNCHANGED <<vars, iterVars, reqVars, projVars>>

\* should_refresh_with_debounce(): the SELECT raises, False is returned
ShouldRefreshFails(p) ==
    /\ sched[p].pc \in {"idle", "skip"}
    /\ sched' = [sched EXCEPT ![p].pc = "skip"]
    /\ UNCHANGED <<now, status, table, view, marked>>
    /\ UNCHANGED <<vars, iterVars, reqVars, projVars>>

\* refresh_materialized_view() is called after True: start_time and result
RefreshBegin(p) ==
    /\ sched[p].pc = "due"
    /\ sched' = [sched EXCEPT ![p] = Invocation("started", now, 0, InitialResult)]
    /\ UNCHANGED <<now, status, table, view, marked>>
    /\ UNCHANGED <<vars, iterVars, reqVars, projVars>>

\* the REFRESH MATERIALIZED VIEW statement completes; duration_ms is taken
RefreshStatement(p) ==
    /\ sched[p].pc = "started"
    /\ view' = Snapshot(table, view)
    /\ sched' = [sched EXCEPT ![p].pc = "refreshed",
                              ![p].duration_ms = DurationMs(sched[p].start_time, now)]
    /\ UNCHANGED <<now, status, table, marked>>
    /\ UNCHANGED <<vars, iterVars, reqVars, projVars>>

\* the UPDATE of the status row completes; the result reports success
UpdateStatus(p) ==
    /\ sched[p].pc = "refreshed"
    /\ status' = RefreshedRow(status, now, sched[p].duration_ms)
    /\ sched' = [sched EXCEPT ![p] =
                    Invocation("idle", 0, 0,
                               [success |-> TRUE,
                                duration_ms |-> sched[p].duration_ms,
                                error |-> {}])]
    /\ UNCHANGED <<now, table, view, marked>>
    /\ UNCHANGED <<vars, iterVars, reqVars, projVars>>

\* str(e) of the statement that raised
ErrorText(at) ==
    IF at = "started" THEN "refresh failed" ELSE "status update failed"

\* the REFRESH statement or the UPDATE raises: the except branch
RefreshFails(p) ==
    /\ sched[p].pc \in {"started", "refreshed"}
    /\ status' = FailedRow(status, now, DurationMs(sched[p].start_time, now))
    /\ sched' = [sched EXCEPT ![p] =
                    Invocation("idle", 0, 0,
                               [success |-> FALSE,
                                duration_ms |-> DurationMs(sched[p].start_time, now),
                                error |-> {ErrorText(sched[p].pc)}])]
    /\ UNCHANGED <<now, table, view, marked>>
    /\ UNCHANGED <<vars, iterVars, reqVars, projVars>>

GovNext ==
    \/ Tick
    \/ AssetWrite
    \/ MarkNeedsRefresh
    \/ MarkFails
    \/ \E p \in Schedulers : ShouldRefresh(p)
    \/ \E p \in Schedulers : ShouldRefreshFails(p)
    \/ \E p \in Schedulers : RefreshBegin(p)
    \/ \E p \in Schedulers : RefreshStatement(p)
    \/ \E p \in Schedulers : UpdateStatus(p)
    \/ \E p \in Schedulers : RefreshFails(p)

GovSpec == GovInit /\ [][GovNext]_govVars

(***************************************************************************)
(* The state machine: a query is received, parsed, and executed.           *)
(***************************************************************************)
Init ==
    /\ shape \in Queries
    /\ query = RenderAll(shape)
    /\ pc = "received"
    /\ where_clause = <<>>
    /\ params = <<>>
    /\ results = {}
    /\ failure = "none"
    /\ GovStart
    /\ IterIdle
    /\ ReqIdle
    /\ ProjIdle

\* where_clause, params = SearchQueryParser.parse(query)
Parse ==
    /\ pc = "received"
    /\ LET parsed == parse(query)
       IN  /\ where_clause' = parsed.clause
           /\ params' = parsed.params
    /\ pc' = "parsed"
    /\ UNCHANGED <<shape, query, results, failure>>
    /\ UNCHANGED <<govVars, iterVars, reqVars, projVars>>

\* the rows cursor.execute(sql, params) selects
Selected(clause, ps) ==
    LET plan == Plan(Bind(clause, ps))
    IN  {r \in Rows : Eval(plan, r) = "T"}

RECURSIVE Malformed(_)
\* the store cannot read the expression
Malformed(plan) ==
    \/ plan.op = "error"
    \/ /\ plan.op \in {"or", "and"}
       /\ \E k \in 1..Len(plan.kids) : Malformed(plan.kids[k])

\* the statement is rejected by the store
Rejected(clause, ps) == Malformed(Plan(Bind(clause, ps)))

\* AssetSearchService.search: the statement runs and the rows are returned
Search ==
    /\ pc = "parsed"
    /\ ~Rejected(where_clause, params)
    /\ results' = Selected(where_clause, params)
    /\ pc' = "done"
    /\ UNCHANGED <<shape, query, where_clause, params, failure>>
    /\ UNCHANGED <<govVars, iterVars, reqVars, projVars>>

\* why cursor.execute can raise: the store is unreachable or the statement
\* runs out of time ("store"), or the store rejects the statement
FailureCauses(clause, ps) ==
    {"store"} \cup (IF Rejected(clause, ps) THEN {"rejected"} ELSE {})

\* AssetSearchService.search: cursor.execute raises, the error is logged and
\* raised again
SearchFails ==
    /\ pc = "parsed"
    /\ failure' \in FailureCauses(where_clause, params)
    /\ pc' = "failed"
    /\ UNCHANGED <<shape, query, where_clause, params, results>>
    /\ UNCHANGED <<govVars, iterVars, reqVars, projVars>>

Next == Parse \/ Search \/ SearchFails

Spec == Init /\ [][Next]_vars

(***************************************************************************)
(* The ordered and the streamed search (AssetSearchService.search and      *)
(* search_iter) over stored records with an id and a creation time.  The   *)
(* statement orders by v.created_at DESC only: the store may return rows   *)
(* of equal creation time in any order, and in a different order each time *)
(* a statement runs.                                                       *)
(***************************************************************************)
MaxRecords == 5

MaxBatch == 3

MaxChanges == 1

\* the writes interleave with streams over at most this many records
MaxBusy == 2

\* statement_timeout_ms: int = 300000
statement_timeout_ms == 300000

\* no statement_timeout was set on the cursor
NoTimeout == {}

\* the stored record with id i created at time c; every third record has
\* no host
StoredRow(i, c) ==
    Row(IF i % 3 = 0 THEN NULL ELSE {T_a_com}, {200}, <<>>)
        @@ [id |-> i, created_at |-> c]

\* creation times of the records 1..n: not decreasing with the id
CreationTimes(n) ==
    {c \in [1..n -> 1..n] :
        \A i \in 1..n : IF i = 1 THEN c[i] = 1 ELSE c[i] \in {c[i - 1], c[i - 1] + 1}}

StoredSets ==
    UNION {{{StoredRow(i, c[i]) : i \in 1..n} : c \in CreationTimes(n)} :
              n \in 0..MaxRecords}

IterQueries == {<<>>, Render(Cond(F_host, <<>>, OpLike, <<"a">>))}

\* the rows of recs that satisfy WHERE clause with the parameters ps
Matching(clause, ps, recs) ==
    LET plan == Plan(Bind(clause, ps))
    IN  {r \in recs : Eval(plan, r) = "T"}

\* the rows of S created last
Newest(S) == {r \in S : \A q \in S : q.created_at <= r.created_at}

RECURSIVE Orderings(_)
\* ORDER BY v.created_at DESC: the sequences of the rows of S the store can
\* return
Orderings(S) ==
    IF S = {} THEN {<<>>}
    ELSE UNION {{<<r>> \o o : o \in Orderings(S \ {r})} : r \in Newest(S)}

\* LIMIT limit OFFSET off of the ordered rows
Window(ordered, limit, off) ==
    IF off >= Len(ordered) THEN <<>>
    ELSE SubSeq(ordered, off + 1,
                IF off + limit <= Len(ordered) THEN off + limit ELSE Len(ordered))

\* the windows LIMIT limit OFFSET off can return of the rows of S: the
\* window of every order the store can return
OrderedWindows(S, limit, off) ==
    {Window(ordered, limit, off) : ordered \in Orderings(S)}

RECURSIVE Windows(_, _, _)
\* the same windows, computed from the newest rows on: rows of one creation
\* time that lie before the offset are skipped, in any choice when the
\* offset falls among them, and the window is filled row by row
Windows(S, limit, off) ==
    IF S = {} \/ limit = 0 THEN {<<>>}
    ELSE IF off >= Cardinality(Newest(S))
    THEN Windows(S \ Newest(S), limit, off - Cardinality(Newest(S)))
    ELSE IF off > 0
    THEN UNION {Windows(S \ K, limit, 0) :
                   K \in {K \in SUBSET Newest(S) : Cardinality(K) = off}}
    ELSE UNION {{<<r>> \o w : w \in Windows(S \ {r}, limit - 1, 0)} :
                   r \in Newest(S)}

Ids(rows) == [k \in 1..Len(rows) |-> rows[k].id]

IterInit ==
    /\ query \in IterQueries
    /\ stored \in StoredSets
    /\ batch_size \in 1..MaxBatch
    /\ pc = "received"
    /\ where_clause = <<>>
    /\ params = <<>>
    /\ offset = 0
    /\ yielded = <<>>
    /\ windows = <<>>
    /\ timeouts = <<>>
    /\ total = {}
    /\ steady = stored
    /\ changes = 0
    /\ pending = <<>>
    /\ cursor = "none"
    /\ failure = "none"
    /\ shape = <<>>
    /\ results = {}
    /\ GovStart
    /\ ReqIdle
    /\ ProjIdle

\* where_clause, params = SearchQueryParser.parse(query); offset = 0
IterParse ==
    /\ pc = "received"
    /\ LET parsed == parse(query)
       IN  /\ where_clause' = parsed.clause
           /\ params' = parsed.params
    /\ offset' = 0
    /\ pc' = "parsed"
    /\ UNCHANGED <<query, stored, batch_size, yielded, windows, failure,
                   timeouts, total, steady, changes, pending, cursor>>
    /\ UNCHANGED <<shape, results, govVars, reqVars, projVars>>

\* a cursor that stays open until the stream is exhausted
HeldOpen == "open"

\* with connection.cursor() as cursor: the block is left, the cursor is
\* closed
WithExit == "closed"

\* a stream that ends at an empty window only
EndsWhenEmpty(size, batch) == size = 0

\* if not rows: break ... if len(rows) < batch_size: break
LastWindowOf(size, batch) == size = 0 \/ size < batch

\* search_iter after rows = cursor.fetchall(): an empty window ends the
\* stream, the rows of any other are there to yield
Fetched(rows) ==
    /\ windows' = Append(windows, Len(rows))
    /\ pending' = Ids(rows)
    /\ pc' = IF rows = <<>> THEN "done" ELSE "yielding"

\* search_iter: one pass of the while loop; SET LOCAL statement_timeout
\* precedes the SELECT on the cursor
FetchWindow ==
    /\ pc \in {"parsed", "streaming"}
    /\ \E rows \in Windows(Matching(where_clause, params, stored),
                            batch_size, offset) :
          Fetched(rows)
    /\ timeouts' = Append(timeouts, {statement_timeout_ms})
    /\ cursor' = WithExit
    /\ UNCHANGED <<query, where_clause, params, stored, batch_size, failure,
                   total, steady, changes, offset, yielded>>
    /\ UNCHANGED <<shape, results, govVars, reqVars, projVars>>

\* search_iter: yield dict(zip(columns, row)); after the last row of the
\* window a short window ends the stream, a full one moves the offset
YieldRow ==
    /\ pc = "yielding"
    /\ yielded' = Append(yielded, Head(pending))
    /\ pending' = Tail(pending)
    /\ IF Tail(pending) # <<>>
       THEN pc' = pc /\ offset' = offset
       ELSE IF LastWindowOf(windows[Len(windows)], batch_size)
            THEN pc' = "done" /\ offset' = offset
            ELSE pc' = "streaming" /\ offset' = offset + batch_size
    /\ UNCHANGED <<query, where_clause, params, stored, batch_size, failure,
                   windows, timeouts, total, steady, changes, cursor>>
    /\ UNCHANGED <<shape, results, govVars, reqVars, projVars>>

\* search without limit: the SELECT is the only statement on the cursor;
\* the whole ordered list is returned
ListAll ==
    /\ pc = "parsed"
    /\ \E ordered \in Orderings(Matching(where_clause, params, stored)) :
          yielded' = Ids(ordered)
    /\ pc' = "listed"
    /\ timeouts' = Append(timeouts, NoTimeout)
    /\ cursor' = WithExit
    /\ UNCHANGED <<query, where_clause, params, stored, batch_size, offset,
                   windows, failure, total, steady, changes, pending>>
    /\ UNCHANGED <<shape, results, govVars, reqVars, projVars>>

\* count: SET LOCAL statement_timeout precedes SELECT COUNT(*) on the
\* cursor; fetchone()[0] is returned
Count ==
    /\ pc = "parsed"
    /\ total' = {Cardinality(Matching(where_clause, params, stored))}
    /\ pc' = "counted"
    /\ timeouts' = Append(timeouts, {statement_timeout_ms})
    /\ cursor' = WithExit
    /\ UNCHANGED <<query, where_clause, params, stored, batch_size, offset,
                   yielded, windows, failure, steady, changes, pending>>
    /\ UNCHANGED <<shape, results, govVars, reqVars, projVars>>

\* a repository inserts a record while the stream is suspended between two
\* windows: the record is the newest
StoreInsert ==
    /\ pc = "streaming"
    /\ changes < MaxChanges
    /\ Cardinality(stored) <= MaxBusy
    /\ stored' = stored \cup {StoredRow(MaxRecords + changes + 1,
                                        MaxRecords + changes + 1)}
    /\ changes' = changes + 1
    /\ UNCHANGED <<query, pc, where_clause, params, batch_size, offset,
                   yielded, windows, failure, timeouts, total, steady,
                   pending, cursor>>
    /\ UNCHANGED <<shape, results, govVars, reqVars, projVars>>

\* a record is deleted while the stream is suspended between two windows
StoreDelete ==
    /\ pc = "streaming"
    /\ changes < MaxChanges
    /\ Cardinality(stored) <= MaxBusy
    /\ \E r \in stored :
          /\ stored' = stored \ {r}
          /\ steady' = steady \ {r}
    /\ changes' = changes + 1
    /\ UNCHANGED <<query, pc, where_clause, params, batch_size, offset,
                   yielded, windows, failure, timeouts, total, pending, cursor>>
    /\ UNCHANGED <<shape, results, govVars, reqVars, projVars>>

\* cursor.execute raises: the error is logged and raised again
IterFails ==
    /\ pc \in {"parsed", "streaming"}
    /\ failure' = "store"
    /\ pc' = "failed"
    /\ cursor' = WithExit
    /\ UNCHANGED <<query, where_clause, params, stored, batch_size, offset,
                   yielded, windows, timeouts, total, steady, changes,
                   pending>>
    /\ UNCHANGED <<shape, results, govVars, reqVars, projVars>>

IterNext ==
    \/ IterParse
    \/ FetchWindow
    \/ YieldRow
    \/ ListAll
    \/ Count
    \/ StoreInsert
    \/ StoreDelete
    \/ IterFails

IterSpec == IterInit /\ [][IterNext]_<<vars, iterVars>>

(***************************************************************************)
(* The search view (AssetSearchView.get).  A request carries query         *)
(* parameters, each absent or a text; the response is the status code and  *)
(* the data of success_response or error_response.                         *)
(***************************************************************************)
CriteriaNames == {"host", "title", "tech", "status", "body", "header", "url"}

\* the parameters of AssetSearchService.count, search and those without a
\* default
CountParameters == {"query", "asset_type", "statement_timeout_ms"}

SearchParameters == {"query", "asset_type", "limit"}

RequiredParameters == {"query"}

\* a request: the criteria host and title, the other criteria absent, page
\* and pageSize
Request(host, title, page_text, size_text) ==
    [host |-> host, title |-> title, tech |-> NULL, status |-> NULL,
     body |-> NULL, header |-> NULL, url |-> NULL,
     page |-> page_text, pageSize |-> size_text]

CriterionTexts == {NULL, {<<>>}, {<<" ">>}, {<<"a">>}}

PageTexts ==
    {NULL, {<<"0">>}, {<<"2">>}, {<<"-", "1">>}, {<<"x">>}, {<<" ", "3", " ">>}}

SizeTexts ==
    {NULL, {<<"0">>}, {<<"2">>}, {<<"1", "0", "0">>}, {<<"1", "0", "1">>},
     {<<"1", ".", "5">>}}

Requests ==
    {Request(h, t, p, s) : h \in CriterionTexts, t \in {NULL, {<<"t">>}},
                           p \in PageTexts, s \in SizeTexts}

\* request.query_params.get(name, '').strip() or None
Criterion(req, name) ==
    LET text == IF req[name] = NULL THEN <<>> ELSE ValueOf(req[name])
    IN  IF Strip(text) = <<>> THEN NULL ELSE {Strip(text)}

\* any([host, title, tech, status_param, body, header, url])
AnyCriterion(req) == \E name \in CriteriaNames : Criterion(req, name) # NULL

\* int(request.query_params.get(name, default)) does not raise
ParamParses(req, name) == req[name] = NULL \/ IntParses(ValueOf(req[name]))

\* int(request.query_params.get(name, default))
ParamInt(req, name, default) ==
    IF req[name] = NULL THEN default ELSE IntOf(ValueOf(req[name]))

\* the try block: page and page_size, or 1 and 10 after ValueError
ParsedPaging(req) ==
    IF ParamParses(req, "page") /\ ParamParses(req, "pageSize")
    THEN [page |-> ParamInt(req, "page", 1),
          page_size |-> ParamInt(req, "pageSize", 10)]
    ELSE [page |-> 1, page_size |-> 10]

Max2(a, b) == IF a >= b THEN a ELSE b

Min2(a, b) == IF a <= b THEN a ELSE b

\* page = max(1, page)
ClampPage(n) == Max2(1, n)

\* a page size with no upper limit
UncappedPageSize(n) == Max2(1, n)

\* page_size = min(max(1, page_size), 100)
ClampPageSize(n) == Min2(Max2(1, n), 100)

\* seq[lo:hi] for 0 <= lo
Slice(seq, lo, hi) ==
    IF lo >= Len(seq) THEN <<>> ELSE SubSeq(seq, lo + 1, Min2(hi, Len(seq)))

\* all_results[offset:offset + page_size] with offset = (page - 1) * page_size
PageOf(all_results, p, size) == Slice(all_results, (p - 1) * size, (p - 1) * size + size)

\* (total + page_size - 1) // page_size if total > 0 else 1
TotalPages(n, size) == IF n > 0 THEN (n + size - 1) \div size ELSE 1

\* the keyword arguments the view passes to count and to search
ServiceKwargs(req) == [name \in CriteriaNames |-> Criterion(req, name)]

\* a call with keyword arguments binds: every keyword is a parameter and
\* every parameter without a default is given
Binds(parameters, required, kwargs) ==
    /\ DOMAIN kwargs \subseteq parameters
    /\ required \subseteq DOMAIN kwargs

\* the records the view searches
ViewStore == {StoredRow(i, i) : i \in 1..3}

\* self.service.count(**kwargs): TypeError when the call does not bind
ServiceCount(kwargs) ==
    IF ~Binds(CountParameters, RequiredParameters, kwargs)
    THEN [raised |-> "TypeError", value |-> 0]
    ELSE LET parsed == parse(kwargs["query"])
         IN  [raised |-> "none",
              value |-> Cardinality(Matching(parsed.clause, parsed.params, ViewStore))]

\* self.service.search(**kwargs): TypeError when the call does not bind
ServiceSearch(kwargs) ==
    IF ~Binds(SearchParameters, RequiredParameters, kwargs)
    THEN [raised |-> "TypeError", value |-> <<>>]
    ELSE LET parsed == parse(kwargs["query"])
         IN  [raised |-> "none",
              value |-> Ids(CHOOSE ordered \in
                              Orderings(Matching(parsed.clause, parsed.params,
                                                 ViewStore)) : TRUE)]

\* error_response(code, message, status_code)
ErrorResponse(status_code, message) ==
    [status_code |-> status_code, message |-> message, results |-> <<>>,
     total |-> 0, page |-> 0, pageSize |-> 0, totalPages |-> 0]

\* success_response(data)
SuccessResponse(found, n, p, size) ==
    [status_code |-> 200, message |-> "", results |-> found, total |-> n,
     page |-> p, pageSize |-> size, totalPages |-> TotalPages(n, size)]

\* the second try block: count, then search, then the page; any exception
\* gives the server error
Searched(kwargs, p, size) ==
    LET counted == ServiceCount(kwargs)
        listed == ServiceSearch(kwargs)
    IN  IF counted.raised # "none" \/ listed.raised # "none"
        THEN ErrorResponse(500, "Search failed")
        ELSE SuccessResponse(PageOf(listed.value, p, size), counted.value, p, size)

ViewInit ==
    /\ request \in Requests
    /\ page = NULL
    /\ page_size = NULL
    /\ response = <<>>
    /\ GovStart
    /\ SearchIdle
    /\ IterIdle
    /\ ProjIdle

\* get(): a request with no criterion is answered 400 before the paging
\* parameters are read
GetInvalid ==
    /\ response = <<>>
    /\ ~AnyCriterion(request)
    /\ response' = ErrorResponse(400, "At least one search parameter is required")
    /\ UNCHANGED <<request, page, page_size>>
    /\ UNCHANGED <<vars, govVars, iterVars, projVars>>

\* get(): the paging parameters are read and clamped, the service is called
Get ==
    /\ response = <<>>
    /\ AnyCriterion(request)
    /\ page' = {ClampPage(ParsedPaging(request).page)}
    /\ page_size' = {ClampPageSize(ParsedPaging(request).page_size)}
    /\ response' = Searched(ServiceKwargs(request),
                            ClampPage(ParsedPaging(request).page),
                            ClampPageSize(ParsedPaging(request).page_size))
    /\ UNCHANGED request
    /\ UNCHANGED <<vars, govVars, iterVars, projVars>>

ViewNext == GetInvalid \/ Get

ViewSpec == ViewInit /\ [][ViewNext]_reqVars

(***************************************************************************)
(* The projections and the tables they are taken from.  A row is an id     *)
(* and the revision of its fields.  A writer writes a row of website or    *)
(* endpoint and then calls mark_needs_refresh until it returns True; one   *)
(* job calls should_refresh_with_debounce and, after True,                 *)
(* refresh_materialized_view.  asset_search_refresh_status holds the row   *)
(* id = 1 or no row: no statement of the governor inserts it.              *)
(***************************************************************************)
MaxAssets == 1

MaxRevisions == 1

MaxEndpoints == 1

AssetRow(id, rev) == [id |-> id, rev |-> rev]

RowIds(rows) == {r.id : r \in rows}

\* the value a call of the governor returned
Returned(call, value) == [call |-> call, value |-> value]

\* row = cursor.fetchone(); if not row: return False; otherwise the debounce
\* test of the row
ShouldRefreshOf(rows, t) ==
    \E row \in rows : should_refresh_with_debounce(row, t)

ProjInit ==
    /\ website = {}
    /\ asset_search_view = {}
    /\ endpoint = {}
    /\ endpoint_search_view = {}
    /\ status_rows \in {{}, {InitialStatus}}
    /\ refresher = Invocation("idle", 0, 0, InitialResult)
    /\ answer = Returned("none", FALSE)
    /\ writer = "idle"
    /\ inserted = 0
    /\ GovStart
    /\ SearchIdle
    /\ IterIdle
    /\ ReqIdle

\* a repository inserts a row of website
InsertWebsite ==
    /\ writer = "idle"
    /\ inserted < MaxAssets
    /\ website' = website \cup {AssetRow(inserted + 1, 0)}
    /\ inserted' = inserted + 1
    /\ writer' = "wrote"
    /\ UNCHANGED <<asset_search_view, endpoint, endpoint_search_view,
                   status_rows, refresher, answer>>
    /\ UNCHANGED <<vars, govVars, iterVars, reqVars>>

\* a repository updates the fields of a row of website
UpdateWebsite ==
    /\ writer = "idle"
    /\ \E r \in website :
          /\ r.rev < MaxRevisions
          /\ website' = (website \ {r}) \cup {AssetRow(r.id, r.rev + 1)}
    /\ writer' = "wrote"
    /\ UNCHANGED <<asset_search_view, endpoint, endpoint_search_view,
                   status_rows, refresher, answer, inserted>>
    /\ UNCHANGED <<vars, govVars, iterVars, reqVars>>

\* a row of website is deleted
DeleteWebsite ==
    /\ writer = "idle"
    /\ \E r \in website : website' = website \ {r}
    /\ writer' = "wrote"
    /\ UNCHANGED <<asset_search_view, endpoint, endpoint_search_view,
                   status_rows, refresher, answer, inserted>>
    /\ UNCHANGED <<vars, govVars, iterVars, reqVars>>

\* a repository inserts a row of endpoint
InsertEndpoint ==
    /\ writer = "idle"
    /\ Cardinality(endpoint) < MaxEndpoints
    /\ endpoint' = endpoint \cup {AssetRow(Cardinality(endpoint) + 1, 0)}
    /\ writer' = "wrote"
    /\ UNCHANGED <<website, asset_search_view, endpoint_search_view,
                   status_rows, refresher, answer, inserted>>
    /\ UNCHANGED <<vars, govVars, iterVars, reqVars>>

\* mark_needs_refresh() by the writer: the UPDATE ... WHERE id = 1 runs on
\* the rows there are, True is returned
MarkDirty ==
    /\ writer = "wrote"
    /\ status_rows' = {MarkedRow(row, now) : row \in status_rows}
    /\ answer' = Returned("mark_needs_refresh", TRUE)
    /\ writer' = "idle"
    /\ UNCHANGED <<website, asset_search_view, endpoint, endpoint_search_view,
                   refresher, inserted>>
    /\ UNCHANGED <<vars, govVars, iterVars, reqVars>>

\* mark_needs_refresh() by the writer: the UPDATE raises, False is returned
\* and the writer has the call to make again
MarkDirtyFails ==
    /\ writer = "wrote"
    /\ answer' = Returned("mark_needs_refresh", FALSE)
    /\ UNCHANGED <<website, asset_search_view, endpoint, endpoint_search_view,
                   status_rows, refresher, writer, inserted>>
    /\ UNCHANGED <<vars, govVars, iterVars, reqVars>>

\* the job calls should_refresh_with_debounce() and, after True, enters
\* refresh_materialized_view(): start_time and result
CheckDue ==
    /\ refresher.pc = "idle"
    /\ answer' = Returned("should_refresh_with_debounce",
                          ShouldRefreshOf(status_rows, now))
    /\ refresher' = IF ShouldRefreshOf(status_rows, now)
                    THEN Invocation("started", now, 0, InitialResult)
                    ELSE refresher
    /\ UNCHANGED <<website, asset_search_view, endpoint, endpoint_search_view,
                   status_rows, writer, inserted>>
    /\ UNCHANGED <<vars, govVars, iterVars, reqVars>>

\* REFRESH MATERIALIZED VIEW CONCURRENTLY asset_search_view completes;
\* duration_ms is taken
RefreshView ==
    /\ refresher.pc = "started"
    /\ asset_search_view' = Snapshot(website, asset_search_view)
    /\ refresher' = [refresher EXCEPT
                        !.pc = "refreshed",
                        !.duration_ms = DurationMs(refresher.start_time, now)]
    /\ UNCHANGED <<website, endpoint, endpoint_search_view, status_rows,
                   answer, writer, inserted>>
    /\ UNCHANGED <<vars, govVars, iterVars, reqVars>>

\* the UPDATE of the status row completes; the result reports success
RecordRefresh ==
    /\ refresher.pc = "refreshed"
    /\ status_rows' = {RefreshedRow(row, now, refresher.duration_ms) :
                          row \in status_rows}
    /\ refresher' = Invocation("idle", 0, 0,
                               [success |-> TRUE,
                                duration_ms |-> refresher.duration_ms,
                                error |-> {}])
    /\ answer' = Returned("refresh_materialized_view", TRUE)
    /\ UNCHANGED <<website, asset_search_view, endpoint, endpoint_search_view,
                   writer, inserted>>
    /\ UNCHANGED <<vars, govVars, iterVars, reqVars>>

\* the REFRESH statement or the UPDATE raises: the except branch
AbortRefresh ==
    /\ refresher.pc \in {"started", "refreshed"}
    /\ status_rows' = {FailedRow(row, now, DurationMs(refresher.start_time, now)) :
                          row \in status_rows}
    /\ refresher' = Invocation("idle", 0, 0,
                               [success |-> FALSE,
                                duration_ms |-> DurationMs(refresher.start_time, now),
                                error |-> {ErrorText(refresher.pc)}])
    /\ answer' = Returned("refresh_materialized_view", FALSE)
    /\ UNCHANGED <<website, asset_search_view, endpoint, endpoint_search_view,
                   writer, inserted>>
    /\ UNCHANGED <<vars, govVars, iterVars, reqVars>>

ProjNext ==
    \/ Tick
    \/ InsertWebsite
    \/ UpdateWebsite
    \/ DeleteWebsite
    \/ InsertEndpoint
    \/ MarkDirty
    \/ MarkDirtyFails
    \/ CheckDue
    \/ RefreshView
    \/ RecordRefresh
    \/ AbortRefresh

ProjSpec == ProjInit /\ [][ProjNext]_<<projVars, now>>

(***************************************************************************)
(* Vocabulary of the properties                                            *)
(***************************************************************************)
Parsed == pc \in {"parsed", "done", "failed"}

Done == pc = "done"

IsCond(item) == item.k = "cond"

\* the field of the condition is in the allow-list
KnownField(item) == Lower(item.field) \in DOMAIN FIELD_MAPPING

CondPositions(sh) == {i \in 1..Len(sh) : IsCond(sh[i])}

\* conditions joined by && and ||
WellFormed(sh) ==
    /\ Len(sh) % 2 = 1
    /\ \A i \in 1..Len(sh) :
          IF i % 2 = 1 THEN IsCond(sh[i])
          ELSE sh[i] \in {AndSep, Raw(<<"&", "&">>), OrSep}

AllKnown(sh) == \A i \in CondPositions(sh) : KnownField(sh[i])

\* every double quote of the query delimits a literal value
NoStrayQuote(sh) ==
    \A i \in 1..Len(sh) :
        IsCond(sh[i]) \/ (\A k \in 1..Len(sh[i].txt) : sh[i].txt[k] # QUOTE)

\* the conditions the queries are composed of
AllConds ==
    GroupConds \cup {f \in Fragments : IsCond(f)} \cup {q[1] : q \in SingleQueries}

\* each condition compiled alone
Compiled == [c \in AllConds |-> _parse_condition(Render(c))]

\* the rows that satisfy each condition alone
SatRows == [c \in AllConds |-> Selected(Compiled[c].clause, Compiled[c].params)]

\* the ||-separated group (1, 2, ...) of position i of a well-formed query
GroupOf(sh, i) == 1 + Cardinality({j \in 1..(i - 1) : sh[j] = OrSep})

GroupIds(sh) == {GroupOf(sh, i) : i \in CondPositions(sh)}

GroupMembers(sh, g) == {i \in CondPositions(sh) : GroupOf(sh, i) = g}

\* the rows of the disjunction of conjunctions
DisjunctionOfConjunctions(sh) ==
    {r \in Rows : \E g \in GroupIds(sh) :
                     \A i \in GroupMembers(sh, g) : r \in SatRows[sh[i]]}

\* the sequence of the parameters of the conditions of sh from position i on
RECURSIVE ParamsFrom(_, _)
ParamsFrom(sh, i) ==
    IF i > Len(sh) THEN <<>>
    ELSE IF IsCond(sh[i]) THEN Compiled[sh[i]].params \o ParamsFrom(sh, i + 1)
    ELSE ParamsFrom(sh, i + 1)

Placeholders(clause) == {i \in 1..Len(clause) : HasPlaceholder(clause[i])}

\* s contains v, character for character up to letter case
ContainsCI(s, v) ==
    \E o \in 0..(Len(s) - Len(v)) :
        \A k \in 1..Len(v) : LowerChar(s[o + k]) = LowerChar(v[k])

(***************************************************************************)
(* C1.  The clause text holds no text of a literal value.  Every token of  *)
(* the returned clause comes from the fixed vocabulary of condition texts  *)
(* and connectives, and in a query whose double quotes all delimit literal *)
(* values, replacing the literal values by other values (a status value    *)
(* that parses as an integer by another that parses) leaves the clause     *)
(* text unchanged: the values reach only the parameter list.               *)
(***************************************************************************)
ClauseVocabulary == ConditionTexts \cup Connectives

InjectionText == <<"'", ")", " ", "O", "R", " ", "1", "=", "1", "-", "-">>

DelimiterText == <<"(", "&", "&", " ", "|", "|", ")">>

IsStatus(item) == Lower(item.field) = F_status

\* another literal value for the condition at position i, variant k
OtherValue(item, i, k) ==
    IF IsStatus(item) /\ IntParses(item.value)
    THEN IF k = 1 THEN <<"7">> ELSE <<"-", "1", "_", "2">>
    ELSE IF k = 1 THEN InjectionText
    ELSE IF i % 4 = 1 THEN <<>> ELSE DelimiterText

\* the query of shape sh with every literal value replaced
Revalued(sh, k) ==
    [i \in 1..Len(sh) |->
        IF IsCond(sh[i]) THEN [sh[i] EXCEPT !.value = OtherValue(sh[i], i, k)]
        ELSE sh[i]]

C1_ValuesOnlyInParams ==
    pc = "parsed" =>
        /\ \A i \in 1..Len(where_clause) : where_clause[i] \in ClauseVocabulary
        /\ NoStrayQuote(shape) =>
              \A k \in {1, 2} :
                  parse(RenderAll(Revalued(shape, k))).clause = where_clause

C1_Witness ==
    /\ pc = "parsed"
    /\ shape = <<Cond(F_host, <<>>, OpLike, <<"a">>), AndSep,
                 Cond(F_status, <<>>, OpExact, T_200)>>
    /\ where_clause = <<"v.host ILIKE %s", " AND ", "v.status_code = %s">>
    /\ params = <<StrParam(<<"%", "a", "%">>), IntParam(200)>>
    /\ parse(RenderAll(Revalued(shape, 1))).params
           = <<StrParam(Wrapped(InjectionText)), IntParam(7)>>

(***************************************************************************)
(* C2.  A query of valid conditions joined by && and || selects exactly    *)
(* the rows for which some ||-separated group has all its &&-joined        *)
(* conditions satisfied, and the store never rejects the statement.        *)
(***************************************************************************)
C2_DisjunctionOfConjunctions ==
    (Parsed /\ WellFormed(shape) /\ AllKnown(shape)) =>
        /\ failure # "rejected"
        /\ Done => results = DisjunctionOfConjunctions(shape)

C2_Witness ==
    /\ Done
    /\ shape = <<Cond(F_host, <<>>, OpLike, <<"a">>), AndSep,
                 Cond(F_tech, <<>>, OpLike, T_vue), OrSep,
                 Cond(F_tech, <<>>, OpLike, T_react)>>
    /\ Row(NULL, NULL, <<T_react>>) \in results
    /\ Row({T_a_com}, {200}, <<T_vue, T_jquery>>) \in results
    /\ Row(NULL, {200}, <<T_vue, T_jquery>>) \notin results
    /\ Row({T_a_com}, {200}, <<T_angular>>) \notin results

(***************************************************************************)
(* C3.  Splitting is quote-aware: in a query of conditions joined by &&    *)
(* and ||, every condition is parsed as one condition and its parameter    *)
(* carries its whole literal value, also when the value contains && or ||. *)
(***************************************************************************)
C3_QuoteAwareSplit ==
    (Parsed /\ WellFormed(shape)) =>
        /\ params = ParamsFrom(shape, 1)
        /\ Cardinality(Placeholders(where_clause))
               = Cardinality({i \in CondPositions(shape) : KnownField(shape[i])})

C3_Witness ==
    /\ Parsed
    /\ shape = <<Cond(F_host, <<>>, OpLike, <<"a", "&", "&", "b">>)>>
    /\ where_clause = <<"v.host ILIKE %s">>
    /\ params = <<StrParam(<<"%", "a", "&", "&", "b", "%">>)>>

(***************************************************************************)
(* C4.  A condition whose field is outside the allow-list is dropped: the  *)
(* query selects the rows of the same query with the condition omitted,    *)
(* the statement is not rejected, and such a condition alone compiles to   *)
(* the match-all clause with no parameter.                                 *)
(***************************************************************************)
IsSingle(sh) == Len(sh) = 1 /\ IsCond(sh[1])

UnknownPositions(sh) == {i \in CondPositions(sh) : ~KnownField(sh[i])}

\* the query of shape sh without the condition at position i
Omitted(sh, i) == [sh EXCEPT ![i] = Raw(<<>>)]

SelectedOf(parsed) == Selected(parsed.clause, parsed.params)

C4_UnknownFieldDropped ==
    /\ (Parsed /\ UnknownPositions(shape) # {}) => failure # "rejected"
    /\ (Parsed /\ IsSingle(shape) /\ UnknownPositions(shape) # {}) =>
          where_clause = <<"1=1">> /\ params = <<>>
    /\ Done =>
          \A i \in UnknownPositions(shape) :
              results = SelectedOf(parse(RenderAll(Omitted(shape, i))))

C4_Witness ==
    /\ Done
    /\ shape = <<Cond(F_host, <<>>, OpLike, <<"a">>), AndSep,
                 Cond(F_bogus, <<>>, OpLike, <<"x">>)>>
    /\ where_clause = <<"v.host ILIKE %s">>
    /\ results = {r \in Rows : r.host \in {{T_a_com}, {T_AB}}}

(***************************************************************************)
(* C5.  A group with no valid condition counts as always true, also as an  *)
(* operand of the top-level OR: a query of conditions joined by && and ||  *)
(* selects the rows for which some group has all its valid conditions      *)
(* satisfied, so a group without a valid condition selects every row.      *)
(***************************************************************************)
FailOpenRows(sh) ==
    {r \in Rows : \E g \in GroupIds(sh) :
                     \A i \in GroupMembers(sh, g) :
                         KnownField(sh[i]) => r \in SatRows[sh[i]]}

C5_EmptyGroupAlwaysTrue ==
    (Done /\ WellFormed(shape)) => results = FailOpenRows(shape)

(***************************************************************************)
(* C6.  A query with text but with no substring of the condition shape     *)
(* compiles to exactly one condition, the case-insensitive match of the    *)
(* whole trimmed query text on host, with exactly one parameter.           *)
(***************************************************************************)
C6_BareTextIsHostMatch ==
    (Parsed /\ Strip(query) # <<>> /\ ~PatternSearch(Strip(query))) =>
        /\ where_clause = <<"v.host ILIKE %s">>
        /\ params = <<StrParam(<<"%">> \o Strip(query) \o <<"%">>)>>
        /\ failure # "rejected"
        /\ Done => results = {r \in Rows : /\ ~IsNull(r.host)
                                             /\ LikeMatch(ValueOf(r.host), params[1][2])}

C6_Witness ==
    /\ Done
    /\ shape = <<Raw(<<" ">>), Raw(F_host), Raw(<<"(">>)>>
    /\ where_clause = <<"v.host ILIKE %s">>
    /\ params = <<StrParam(<<"%", "h", "o", "s", "t", "(", "%">>)>>

(***************************************************************************)
(* C7.  status=="200" selects exactly the rows whose status code is the    *)
(* integer 200, never a row with a null status code; whenever the literal  *)
(* parses as an integer the comparison is the integer comparison with the  *)
(* converted value.                                                        *)
(***************************************************************************)
IsStatusExact(sh) ==
    IsSingle(sh) /\ Lower(sh[1].field) = F_status /\ sh[1].op = OpExact

C7_StatusExactInteger ==
    /\ (Parsed /\ IsStatusExact(shape) /\ IntParses(shape[1].value)) =>
          /\ where_clause = <<"v.status_code = %s">>
          /\ params = <<IntParam(IntOf(shape[1].value))>>
          /\ failure # "rejected"
          /\ Done => results = {r \in Rows : r.status_code = {IntOf(shape[1].value)}}
    /\ (Done /\ IsStatusExact(shape) /\ shape[1].value = T_200) =>
          results = {r \in Rows : r.status_code = {200}}

C7_Witness ==
    /\ Done
    /\ shape = <<Cond(F_status, <<>>, OpExact, T_200)>>
    /\ params = <<IntParam(200)>>
    /\ Row({T_a_com}, {200}, <<>>) \in results
    /\ Row({T_a_com}, NULL, <<>>) \notin results
    /\ Row({T_a_com}, {20}, <<>>) \notin results

(***************************************************************************)
(* C8.  Not-equal is null-inclusive on the scalar fields: field!="v"       *)
(* selects exactly the rows whose field is null or differs from v (for     *)
(* status as an integer when v parses as one, as text otherwise).          *)
(***************************************************************************)
IsScalarNotEqual(sh) ==
    /\ IsSingle(sh)
    /\ sh[1].op = OpNotEqual
    /\ KnownField(sh[1])
    /\ Lower(sh[1].field) \notin ARRAY_FIELDS

Differs(col, x, v) ==
    IF col = "status_code"
    THEN IF IntParses(v) THEN x # IntOf(v) ELSE IntToText(x) # v
    ELSE x # v

NullOrDiffers(col, v) ==
    {r \in Rows : IsNull(r[col]) \/ Differs(col, ValueOf(r[col]), v)}

C8_NotEqualNullInclusive ==
    (Parsed /\ IsScalarNotEqual(shape)) =>
        /\ failure # "rejected"
        /\ Done => results = NullOrDiffers(FIELD_MAPPING[Lower(shape[1].field)],
                                           shape[1].value)

C8_Witness ==
    /\ Done
    /\ shape = <<Cond(F_status, <<>>, OpNotEqual, T_200)>>
    /\ Row({T_a_com}, NULL, <<>>) \in results
    /\ Row({T_a_com}, {20}, <<>>) \in results
    /\ Row({T_a_com}, {200}, <<>>) \notin results

(***************************************************************************)
(* C9.  On a scalar text field, field="v" selects exactly the rows whose   *)
(* field value contains v character for character up to letter case, for   *)
(* every v, the values with % or _ included.                               *)
(***************************************************************************)
IsTextLike(sh) ==
    /\ IsSingle(sh)
    /\ sh[1].op = OpLike
    /\ KnownField(sh[1])
    /\ FIELD_MAPPING[Lower(sh[1].field)] \in TextColumns

Containing(col, v) ==
    {r \in Rows : ~IsNull(r[col]) /\ ContainsCI(ValueOf(r[col]), v)}

C9_LikeIsSubstring ==
    (Done /\ IsTextLike(shape)) =>
        results = Containing(FIELD_MAPPING[Lower(shape[1].field)], shape[1].value)

(***************************************************************************)
(* C10.  On the array field tech: tech="v" selects the rows with a tag     *)
(* that contains v up to letter case, tech=="v" the rows with the tag v,   *)
(* tech!="v" the rows without the tag v.                                   *)
(***************************************************************************)
IsTech(sh) == IsSingle(sh) /\ Lower(sh[1].field) = F_tech

HasTag(r, v) == \E i \in 1..Len(r.tech) : r.tech[i] = v

TechRows(op, v) ==
    IF op = OpLike
    THEN {r \in Rows : \E i \in 1..Len(r.tech) : ContainsCI(r.tech[i], v)}
    ELSE IF op = OpExact THEN {r \in Rows : HasTag(r, v)}
    ELSE {r \in Rows : ~HasTag(r, v)}

C10_TechMatching ==
    (Done /\ IsTech(shape)) => results = TechRows(shape[1].op, shape[1].value)

(***************************************************************************)
(* Vocabulary of the governor properties                                   *)
(***************************************************************************)
\* the time of the last completed refresh, when there is one
LastRefreshAt(row) == CHOOSE x \in row.last_refresh_at : TRUE

NeverRefreshed(row) == row.last_refresh_at = {}

\* the wall-clock time elapsed at t since the last completed refresh
ElapsedSince(row, t) == t - LastRefreshAt(row)

\* dirty, and never refreshed or more than the debounce time elapsed
DirtyDue(row, t) ==
    /\ row.needs_refresh
    /\ NeverRefreshed(row) \/ ElapsedSince(row, t) > DEBOUNCE_SECONDS

\* a refresh has completed and the debounce time has not elapsed since
WithinWindow(row, t) ==
    ~NeverRefreshed(row) /\ ElapsedSince(row, t) <= DEBOUNCE_SECONDS

\* the step in which refresh_materialized_view of p returns success
RefreshSucceeds(p) ==
    /\ sched[p].pc = "refreshed"
    /\ sched'[p].pc = "idle"
    /\ sched'[p].result.success

\* the step in which refresh_materialized_view of p returns a failure
RefreshReturnsFailure(p) ==
    /\ sched[p].pc \in {"started", "refreshed"}
    /\ sched'[p].pc = "idle"
    /\ ~sched'[p].result.success

\* the ids every search and count ranges over
SearchableIds == Joined_ids(table, view)

(***************************************************************************)
(* C11.  should_refresh_with_debounce returns True exactly when the dirty  *)
(* flag is set and either no refresh has completed or more than 600        *)
(* seconds have elapsed since the last completed refresh; it returns False *)
(* when the flag is not set, and it leaves the status row as it is.        *)
(***************************************************************************)
C11_ShouldRefreshDecision ==
    [][\A p \in Schedulers :
          ShouldRefresh(p) =>
              /\ (sched'[p].pc = "due") <=> DirtyDue(status, now)
              /\ ~status.needs_refresh => sched'[p].pc = "skip"
              /\ status' = status]_govVars

C11_Witness ==
    /\ \E p \in Schedulers : sched[p].pc = "due"
    /\ \E p \in Schedulers : sched[p].pc = "skip"
    /\ status.needs_refresh
    /\ status.last_refresh_at = {0}
    /\ now = DEBOUNCE_SECONDS + 1

(***************************************************************************)
(* C12.  Debounce.  While a refresh has completed and at most 600 seconds  *)
(* have elapsed since, should-refresh is false whatever the number of      *)
(* mark-dirty calls; once the window has elapsed with the flag set it is   *)
(* true, and it stays true until a refresh clears the flag: mark-dirty     *)
(* calls never make it false again, so the governor becomes due once.      *)
(***************************************************************************)
C12_Debounce ==
    /\ [](WithinWindow(status, now) => ~should_refresh_with_debounce(status, now))
    /\ []((status.needs_refresh /\ ~NeverRefreshed(status)
             /\ ElapsedSince(status, now) > DEBOUNCE_SECONDS)
            => should_refresh_with_debounce(status, now))
    /\ [][(should_refresh_with_debounce(status, now) /\ status'.needs_refresh)
            => should_refresh_with_debounce(status', now')]_govVars

C12_Witness ==
    /\ status.needs_refresh
    /\ status.last_refresh_at = {0}
    /\ status.updated_at = DEBOUNCE_SECONDS
    /\ now = DEBOUNCE_SECONDS
    /\ marked = "True"
    /\ \A p \in Schedulers : sched[p].pc = "skip"

(***************************************************************************)
(* C13.  mark_needs_refresh sets the dirty flag and the status timestamp   *)
(* and nothing else: the last refresh time and duration, the view, the     *)
(* table and every scheduler invocation are unchanged (no refresh starts). *)
(* With the flag already set, the flag stays set.                          *)
(***************************************************************************)
C13_MarkFrame ==
    [][(MarkNeedsRefresh \/ (marked' = "True" /\ marked # "True")) =>
          /\ status'.needs_refresh
          /\ status'.updated_at = now
          /\ status'.last_refresh_at = status.last_refresh_at
          /\ status'.last_refresh_duration_ms = status.last_refresh_duration_ms
          /\ view' = view
          /\ table' = table
          /\ sched' = sched]_govVars

C13_Witness ==
    /\ marked = "True"
    /\ status = StatusRow(TRUE, {0}, {0}, 1)
    /\ now = 1
    /\ view = 0
    /\ table = 1
    /\ \A p \in Schedulers : sched[p].pc = "idle"

(***************************************************************************)
(* C14.  A successful refresh writes the cleared flag, the last refresh    *)
(* time and the duration in one step: the flag is cleared only in a step   *)
(* that also stamps the time and the duration of that refresh, the time    *)
(* and the duration change in no other step, and the result reports        *)
(* success.                                                                *)
(***************************************************************************)
C14_AtomicBookkeeping ==
    /\ [][\A p \in Schedulers :
             RefreshSucceeds(p) =>
                 /\ status' = StatusRow(FALSE, {now}, {sched[p].duration_ms}, now)
                 /\ sched'[p].result.duration_ms = sched[p].duration_ms
                 /\ sched'[p].result.error = {}]_govVars
    /\ [][(\/ status.needs_refresh /\ ~status'.needs_refresh
           \/ status'.last_refresh_at # status.last_refresh_at
           \/ status'.last_refresh_duration_ms # status.last_refresh_duration_ms)
            => \E p \in Schedulers :
                  /\ RefreshSucceeds(p)
                  /\ status' = StatusRow(FALSE, {now}, {sched[p].duration_ms}, now)]_govVars

C14_Witness ==
    /\ status = StatusRow(FALSE, {DEBOUNCE_SECONDS + 1}, {1000}, DEBOUNCE_SECONDS + 1)
    /\ \E p \in Schedulers :
          /\ sched[p].pc = "idle"
          /\ sched[p].result = [success |-> TRUE, duration_ms |-> 1000, error |-> {}]

(***************************************************************************)
(* C15.  A refresh whose REFRESH statement or status UPDATE raises returns *)
(* success False with the error text, and no step of the call changes the  *)
(* dirty flag or the last refresh time.                                    *)
(***************************************************************************)
C15_FailureLeavesStatus ==
    [][\A p \in Schedulers :
          /\ RefreshReturnsFailure(p) =>
                /\ sched'[p].result.error # {}
                /\ status'.needs_refresh = status.needs_refresh
                /\ status'.last_refresh_at = status.last_refresh_at
          /\ (sched'[p] # sched[p] /\ sched'[p].pc \in {"started", "refreshed"}) =>
                status' = status]_govVars

C15_Witness ==
    /\ \E p \in Schedulers :
          /\ sched[p].pc = "idle"
          /\ ~sched[p].result.success
          /\ sched[p].result.error = {"status update failed"}
          /\ sched[p].result.duration_ms = 1000
    /\ status = StatusRow(TRUE, {}, {}, 0)
    /\ table = 1
    /\ view = 1

(***************************************************************************)
(* C16.  A failed refresh shows in the status row: the row read by         *)
(* get_refresh_status after the failure differs from the row before it.    *)
(***************************************************************************)
C16_FailureSurfaced ==
    [][\A p \in Schedulers :
          RefreshReturnsFailure(p) => get_refresh_status' # get_refresh_status]_govVars

C18_MinimumInterval ==
    [][\A p \in Schedulers :
          (RefreshSucceeds(p) /\ ~NeverRefreshed(status))
              => ElapsedSince(status, now) > DEBOUNCE_SECONDS]_govVars

(***************************************************************************)
(* Vocabulary of the ordering properties                                   *)
(***************************************************************************)
\* the stored record with the id i
StoredById(i) == CHOOSE r \in stored : r.id = i

\* record a comes strictly before record b: creation time descending, ties
\* broken by id descending
Before(a, b) ==
    \/ a.created_at > b.created_at
    \/ a.created_at = b.created_at /\ a.id > b.id

\* the ids are in the strict total order
StrictlyOrdered(ids) ==
    \A k \in 1..(Len(ids) - 1) : Before(StoredById(ids[k]), StoredById(ids[k + 1]))

\* the ids are in descending creation-time order
NewestFirst(ids) ==
    \A k \in 1..(Len(ids) - 1) :
        StoredById(ids[k]).created_at >= StoredById(ids[k + 1]).created_at

\* the ids of the last window fetched
LastWindow ==
    SubSeq(yielded, Len(yielded) - windows[Len(windows)] + 1, Len(yielded))

MatchingIds == {r.id : r \in Matching(where_clause, params, stored)}

\* every id of ids once, and nothing else
ExactlyOnce(seq, ids) ==
    /\ Len(seq) = Cardinality(ids)
    /\ {seq[k] : k \in 1..Len(seq)} = ids

\* full windows of the batch size, then one short (or empty) window
WindowsOf(sizes, batch) ==
    /\ sizes # <<>>
    /\ \A k \in 1..(Len(sizes) - 1) : sizes[k] = batch
    /\ sizes[Len(sizes)] < batch

(***************************************************************************)
(* C19.  Results are in a strict total order: the list search returns and  *)
(* every window search_iter fetches is ordered by creation time            *)
(* descending, records of equal creation time by id descending.            *)
(***************************************************************************)
C19_StrictTotalOrder ==
    changes = 0 =>
        /\ pc = "listed" => StrictlyOrdered(yielded)
        /\ (pc \in {"streaming", "done"} /\ windows # <<>>) =>
               StrictlyOrdered(LastWindow)

(***************************************************************************)
(* C20.  Over records that do not change, search_iter with batch size B    *)
(* yields every matching record exactly once, in descending creation-time  *)
(* order, in full windows of B followed by one short window; with B = 2    *)
(* and 5 matching records the windows are 2, 2 and 1.                      *)
(***************************************************************************)
C20_StreamExactlyOnce ==
    (pc = "done" /\ changes = 0) =>
        /\ ExactlyOnce(yielded, MatchingIds)
        /\ NewestFirst(yielded)
        /\ WindowsOf(windows, batch_size)
        /\ (batch_size = 2 /\ Cardinality(MatchingIds) = 5) => windows = <<2, 2, 1>>

(***************************************************************************)
(* C21.  Every data statement of search, count and search_iter (each       *)
(* window) runs with a statement timeout set on its cursor before it: no   *)
(* statement is issued without one.                                        *)
(***************************************************************************)
C21_EveryQueryBounded ==
    \A k \in 1..Len(timeouts) : timeouts[k] # NoTimeout

(***************************************************************************)
(* C22.  The search view clamps pagination for every request it serves:    *)
(* the effective page is at least 1 and the effective page size is within  *)
(* 1..100 whatever integers are supplied, values that are not integers     *)
(* fall back to page 1 and size 10, and the page cut from any result list  *)
(* holds at most page-size results.                                        *)
(***************************************************************************)
MaxListed == 3

\* the result lists of up to MaxListed records
Listings == {[k \in 1..m |-> k] : m \in 0..MaxListed}

\* the view has answered a request that carries a criterion
Served == response # <<>> /\ response.status_code # 400

C22_PaginationClamped ==
    Served =>
        /\ page # NULL /\ page_size # NULL
        /\ \A p \in page : p >= 1
        /\ \A size \in page_size : size >= 1 /\ size <= 100
        /\ ~(ParamParses(request, "page") /\ ParamParses(request, "pageSize")) =>
               page = {1} /\ page_size = {10}
        /\ \A p \in page : \A size \in page_size :
               /\ Len(response.results) <= size
               /\ \A all_results \in Listings : Len(PageOf(all_results, p, size)) <= size

\* page 0 and page size 101 were supplied: page 1 and size 100 are in effect
C22_Witness ==
    /\ Served
    /\ request.page = {<<"0">>}
    /\ request.pageSize = {<<"1", "0", "1">>}
    /\ page = {1}
    /\ page_size = {100}

(***************************************************************************)
(* C23.  A request that carries at least one non-empty criterion is        *)
(* answered with success: the calls of count and search succeed and the    *)
(* response carries the matched records and the totals; the server error   *)
(* is not returned while the store executes the statements.                *)
(***************************************************************************)
C23_SearchSucceeds ==
    (response # <<>> /\ AnyCriterion(request)) =>
        /\ response.status_code = 200
        /\ Len(response.results) <= response.total

(***************************************************************************)
(* Vocabulary of the projection properties                                 *)
(***************************************************************************)
\* the status row is there and its flag is clear
Clean == status_rows # {} /\ \A row \in status_rows : ~row.needs_refresh

\* no refresh is in flight and no writer is between its write and its mark
Quiet == refresher.pc = "idle" /\ writer = "idle"

C25_OneStatusRecord ==
    /\ Cardinality(status_rows) = 1
    /\ answer = Returned("mark_needs_refresh", TRUE) =>
           \E row \in status_rows : row.needs_refresh
    /\ answer = Returned("should_refresh_with_debounce", FALSE) =>
           status_rows # {}

DistinctTimes(recs) ==
    \A a \in recs : \A b \in recs : a.created_at = b.created_at => a = b

\* no element occurs twice
NoRepeat(seq) ==
    \A j \in 1..Len(seq) : \A k \in 1..Len(seq) : seq[j] = seq[k] => j = k

\* the ids of the records that matched during the whole stream
SteadyIds == {r.id : r \in Matching(where_clause, params, steady)}

C28_StreamUnderWrites ==
    (pc = "done" /\ DistinctTimes(stored \cup steady)) =>
        /\ NoRepeat(yielded)
        /\ SteadyIds \subseteq {yielded[k] : k \in 1..Len(yielded)}

(***************************************************************************)
(* C29.  search_iter terminates: over N matching records that do not       *)
(* change and a batch size B it issues floor(N / B) + 1 window queries,    *)
(* every window before the last is full and the last is shorter than B     *)
(* (possibly empty), and while it is suspended at a yield no cursor is     *)
(* open.                                                                   *)
(***************************************************************************)
\* the generator is suspended at a yield
Suspended == pc \in {"yielding", "streaming"}

C29_StreamTerminates ==
    changes = 0 =>
        /\ Len(windows) <= Cardinality(MatchingIds) \div batch_size + 1
        /\ \A k \in 1..(Len(windows) - 1) : windows[k] = batch_size
        /\ pc = "done" =>
               /\ Len(windows) = Cardinality(MatchingIds) \div batch_size + 1
               /\ windows[Len(windows)] < batch_size
        /\ Suspended => cursor = "closed"

\* four matching records streamed in windows of two: two full windows and
\* an empty one
C29_Witness ==
    /\ pc = "done"
    /\ changes = 0
    /\ batch_size = 2
    /\ Cardinality(MatchingIds) = 4
    /\ windows = <<2, 2, 0>>
    /\ cursor = "closed"

(***************************************************************************)
(* C30.  A pending write becomes due and stays due.  With the dirty flag   *)
(* set, once the clock has passed the last completed refresh plus 600      *)
(* seconds every should-refresh call returns True; the governor stays due  *)
(* until a refresh succeeds, whatever marks, failed refreshes and clock    *)
(* ticks come between.  A successful refresh clears the flag, and with no  *)
(* later mark every should-refresh call returns False.                     *)
(***************************************************************************)
\* the clock has passed the last completed refresh plus the debounce time
WindowPassed(row, t) ==
    ~NeverRefreshed(row) /\ t > LastRefreshAt(row) + DEBOUNCE_SECONDS

C30_EventuallyDue ==
    /\ [][\A p \in Schedulers :
             (ShouldRefresh(p) /\ status.needs_refresh /\ WindowPassed(status, now))
                 => sched'[p].pc = "due"]_govVars
    /\ [][(DirtyDue(status, now) /\ ~(\E p \in Schedulers : RefreshSucceeds(p)))
             => DirtyDue(status', now')]_govVars
    /\ [][\A p \in Schedulers : RefreshSucceeds(p) => ~status'.needs_refresh]_govVars
    /\ [][(~status.needs_refresh /\ ~MarkNeedsRefresh) => ~status'.needs_refresh]_govVars
    /\ [][\A p \in Schedulers :
             (ShouldRefresh(p) /\ ~status.needs_refresh) => sched'[p].pc = "skip"]_govVars

\* refreshed at 0, marked since, the clock at 601: both schedulers were
\* answered True
C30_Witness ==
    /\ status.needs_refresh
    /\ status.last_refresh_at = {0}
    /\ now = DEBOUNCE_SECONDS + 1
    /\ status.updated_at = DEBOUNCE_SECONDS
    /\ \A p \in Schedulers : sched[p].pc = "due"

====
